---- MODULE Spec2Model ----
(***************************************************************************)
(* Employee management backend: the temporal salary manager.               *)
(*                                                                         *)
(* The HTTP handlers of app/api/v1/salaries.py and the employee update of  *)
(* app/api/v1/employees.py + app/crud/employee.py are modelled as actions  *)
(* over the Entity Store (employees, salaries).  The data-access layer of  *)
(* salaries (app/crud/salary.py, app/crud/base.py) and the permission      *)
(* helpers (app/core/permissions.py) are not part of the sources at hand;  *)
(* they are modelled from the specification's section 4.1 and section 6.   *)
(***************************************************************************)
EXTENDS Integers, Sequences, FiniteSets, TLC

\* ---------------------------------------------------------------- bounds
NumEmployees == 1
MaxDate == 3
Today == 2
MaxAmount == 2
MaxSalaryRows == 2
NumRequests == 2
MaxFieldsSet == 1

VARIABLES employees, salaries, next_salary_id, resp, reqs,
          attendances, next_attendance_id, leaves, next_leave_id,
          departments, users, next_employee_id, next_user_id

vars == <<employees, salaries, next_salary_id, resp, reqs,
          attendances, next_attendance_id, leaves, next_leave_id,
          departments, users, next_employee_id, next_user_id>>

\* The departments and user accounts, and the primary-key sequences of
\* employees and users.
org == <<departments, users, next_employee_id, next_user_id>>

\* The attendance and leave tables and the tables of org, which the salary
\* handlers and the employee hire-date update never touch.
hr == <<attendances, next_attendance_id, leaves, next_leave_id, org>>

\* ------------------------------------------------------- optional values
\* Optional[T]: None is the empty tuple, a present value v is <<v>>.
Null == <<>>

Some(v) == <<v>>

\* ------------------------------------------------------------ value sets
EmpIds == 1..NumEmployees

\* Employee ids a request may name: the last one never exists (404 paths).
ReqEmpIds == 1..(NumEmployees + 1)

Dates == 1..MaxDate

OptDates == {Null} \cup {Some(d) : d \in Dates}

Amounts == 1..MaxAmount

\* Amounts a request may carry: 0 stands for every non-positive amount.
ReqAmounts == 0..MaxAmount

Roles == {"admin", "manager", "employee"}

\* The callers of the write endpoints: one user of each role, not linked to
\* an employee (the write permissions read the role alone).
WriteCallers == [role : Roles, employee_id : {Null}]

\* The callers of the read endpoints: the above, and users of role employee
\* linked to each employee id.
Callers ==
    WriteCallers
      \cup [role : {"employee"}, employee_id : {Some(e) : e \in ReqEmpIds}]

\* ------------------------------------------------------------ permissions
check_resource_ownership(current_user, employee_id) ==
    \/ current_user.role \in {"admin", "manager"}
    \/ current_user.employee_id = Some(employee_id)

can_create_salary(current_user) == current_user.role \in {"admin", "manager"}

can_update_salary(current_user) == current_user.role \in {"admin", "manager"}

can_delete_salary(current_user) == current_user.role = "admin"

can_update_employee(current_user) == current_user.role \in {"admin", "manager"}

\* ------------------------------------------------------------- responses
\* What the caller gets back.  args records the path/query parameters of a
\* read request (empty for the write endpoints), body the Salary rows of the
\* payload, current_salary the SalaryHistory.current_salary field.
Response(op, args, status, detail, body, current_salary) ==
    [op |-> op, args |-> args, status |-> status, detail |-> detail,
     body |-> body, current_salary |-> current_salary]

\* An HTTPException raised before any write: the store is left as it is.
Raise(op, args, status, detail) ==
    /\ resp' = Response(op, args, status, detail, <<>>, Null)
    /\ UNCHANGED <<employees, salaries, next_salary_id, reqs, hr>>

\* ------------------------------------------------------ salary data access
SalariesOf(employee_id) == {s \in salaries : s.employee_id = employee_id}

OpenSalariesOf(employee_id) ==
    {s \in SalariesOf(employee_id) : s.effective_to = Null}

\* effective_from <= as_of_date and (effective_to is null or >= as_of_date)
Covers(s, as_of_date) ==
    /\ s.effective_from <= as_of_date
    /\ (s.effective_to = Null \/ s.effective_to[1] >= as_of_date)

\* The possible results of crud_salary.get_current_salary: the matching row
\* that started most recently (any of them when several started the same
\* day), None when no row matches.  as_of_date None means today.
crud_get_current_salary(employee_id, as_of_date) ==
    LET d == IF as_of_date = Null THEN Today ELSE as_of_date[1]
        matching == {s \in SalariesOf(employee_id) : Covers(s, d)}
        latest == {s \in matching :
                     \A t \in matching : t.effective_from <= s.effective_from}
    IN  IF matching = {} THEN {Null} ELSE {Some(s) : s \in latest}

\* The row crud_salary.create inserts for a SalaryCreate.
NewSalaryRow(obj_in) ==
    [id |-> next_salary_id,
     employee_id |-> obj_in.employee_id,
     base_salary |-> obj_in.base_salary,
     effective_from |-> obj_in.effective_from,
     effective_to |-> obj_in.effective_to]

\* crud_salary.create: one new row with the next primary key.
crud_create_salary(obj_in) ==
    /\ next_salary_id <= MaxSalaryRows
    /\ salaries' = salaries \cup {NewSalaryRow(obj_in)}
    /\ next_salary_id' = next_salary_id + 1

\* crud_salary.update (CRUDBase.update): every field the request sets is
\* written to the row in place; fields left unset keep their value.
crud_update_salary(db_obj, obj_in) ==
    [id |-> db_obj.id,
     employee_id |-> IF obj_in.employee_id = Null THEN db_obj.employee_id
                     ELSE obj_in.employee_id[1],
     base_salary |-> IF obj_in.base_salary = Null THEN db_obj.base_salary
                     ELSE obj_in.base_salary[1],
     effective_from |-> IF obj_in.effective_from = Null
                        THEN db_obj.effective_from
                        ELSE obj_in.effective_from[1],
     effective_to |-> IF obj_in.effective_to = Null THEN db_obj.effective_to
                      ELSE obj_in.effective_to[1]]

\* The row crud_salary.update_current_salary opens.
NewCurrentRow(employee_id, new_salary, effective_from) ==
    [id |-> next_salary_id,
     employee_id |-> employee_id,
     base_salary |-> new_salary,
     effective_from |-> effective_from,
     effective_to |-> Null]

\* The presently-open row with effective_to set to the day before.
ClosedRow(s, effective_from) ==
    [s EXCEPT !.effective_to = Some(effective_from - 1)]

\* crud_salary.update_current_salary: in one transaction, close the
\* presently-open row (one of them, should there be several) the day before
\* effective_from and open a new row starting at effective_from.
crud_update_current_salary(employee_id, new_salary, effective_from) ==
    /\ next_salary_id <= MaxSalaryRows
    /\ next_salary_id' = next_salary_id + 1
    /\ IF OpenSalariesOf(employee_id) = {}
       THEN salaries' = salaries \cup
               {NewCurrentRow(employee_id, new_salary, effective_from)}
       ELSE \E current \in OpenSalariesOf(employee_id) :
               salaries' = (salaries \ {current}) \cup
                  {ClosedRow(current, effective_from),
                   NewCurrentRow(employee_id, new_salary, effective_from)}

\* Rows in ascending (effective_from, id) order.
RowBefore(s, t) ==
    \/ s.effective_from < t.effective_from
    \/ (s.effective_from = t.effective_from /\ s.id <= t.id)

RECURSIVE SortRows(_)
SortRows(rows) ==
    IF rows = {} THEN <<>>
    ELSE LET first == CHOOSE s \in rows : \A t \in rows : RowBefore(s, t)
         IN  <<first>> \o SortRows(rows \ {first})

\* crud_salary.get_salary_history: all rows of the employee ordered by
\* effective_from ascending.
crud_get_salary_history(employee_id) == SortRows(SalariesOf(employee_id))

\* ------------------------------------------------------- request schemas
\* SalaryCreate as a request may carry it.
SalaryCreateInputs ==
    [employee_id : ReqEmpIds, base_salary : ReqAmounts,
     effective_from : Dates, effective_to : OptDates]

\* SalaryBase.base_salary gt=0 and SalaryCreate.validate_effective_dates.
ValidSalaryCreate(salary_in) ==
    /\ salary_in.base_salary > 0
    /\ (salary_in.effective_to # Null
          => salary_in.effective_to[1] >= salary_in.effective_from)

\* SalaryUpdate: every field optional; Null is "not set".  effective_to may
\* also be set to an explicit null, Some(Null).
FieldsSet(salary_in) ==
    Cardinality({f \in DOMAIN salary_in : salary_in[f] # Null})

\* A request sets at most MaxFieldsSet of the four fields.
SalaryUpdateInputs ==
    {salary_in \in
        [employee_id : {Null} \cup {Some(e) : e \in ReqEmpIds},
         base_salary : {Null} \cup {Some(a) : a \in ReqAmounts},
         effective_from : OptDates,
         effective_to : {Null} \cup {Some(d) : d \in OptDates}] :
       FieldsSet(salary_in) <= MaxFieldsSet}

\* SalaryUpdate.base_salary gt=0 / validate_salary.
ValidSalaryUpdate(salary_in) ==
    salary_in.base_salary # Null => salary_in.base_salary[1] > 0

\* EmployeeUpdate, the hire_date field: not set, explicit null, or a date.
EmployeeUpdateInputs ==
    [hire_date : {Null} \cup {Some(d) : d \in OptDates}]

\* EmployeeUpdate.validate_hire_date: not in the future.
ValidEmployeeUpdate(employee_in) ==
    (employee_in.hire_date # Null /\ employee_in.hire_date[1] # Null)
       => employee_in.hire_date[1][1] <= Today

SalaryIds == 1..MaxSalaryRows

\* ------------------------------------------------------------- handlers
\* POST /salaries/, lines 200-226: the outcomes of everything before the
\* insert, <<201, "ok">> when the request may insert.
create_salary_checks(current_user, salary_in) ==
    IF ~can_create_salary(current_user) THEN {<<403, "forbidden">>}
    ELSE IF ~ValidSalaryCreate(salary_in) THEN {<<422, "validation">>}
    ELSE IF salary_in.employee_id \notin DOMAIN employees
    THEN {<<404, "employee">>}
    ELSE
      LET employee == employees[salary_in.employee_id] IN
      IF employee.hire_date # Null
           /\ salary_in.effective_from < employee.hire_date[1]
      THEN {<<400, "hire_date">>}
      ELSE
        {IF existing_current # Null /\ existing_current[1].effective_to = Null
         THEN <<400, "active_salary">>
         ELSE <<201, "ok">> :
           existing_current \in
              crud_get_current_salary(salary_in.employee_id,
                                      Some(salary_in.effective_from))}

\* POST /salaries/
create_salary(current_user, salary_in) ==
    \E outcome \in create_salary_checks(current_user, salary_in) :
       IF outcome[1] # 201
       THEN Raise("create_salary", <<>>, outcome[1], outcome[2])
       ELSE
         /\ crud_create_salary(salary_in)
         /\ resp' = Response("create_salary", <<>>, 201, "ok",
                       <<NewSalaryRow(salary_in)>>, Null)
         /\ UNCHANGED <<employees, reqs, hr>>

\* PUT /salaries/{salary_id}
update_salary(current_user, salary_id, salary_in) ==
    IF ~can_update_salary(current_user)
    THEN Raise("update_salary", <<>>, 403, "forbidden")
    ELSE IF ~ValidSalaryUpdate(salary_in)
    THEN Raise("update_salary", <<>>, 422, "validation")
    ELSE IF ~(\E s \in salaries : s.id = salary_id)
    THEN Raise("update_salary", <<>>, 404, "salary")
    ELSE
      LET salary == CHOOSE s \in salaries : s.id = salary_id IN
      IF /\ salary_in.effective_from # Null
         /\ salary.employee_id \in DOMAIN employees
         /\ employees[salary.employee_id].hire_date # Null
         /\ salary_in.effective_from[1]
               < employees[salary.employee_id].hire_date[1]
      THEN Raise("update_salary", <<>>, 400, "hire_date")
      ELSE IF /\ salary_in.employee_id # Null
              /\ salary_in.employee_id[1] \notin DOMAIN employees
      THEN Raise("update_salary", <<>>, 500, "foreign_key")
      ELSE
        /\ salaries' = (salaries \ {salary})
                          \cup {crud_update_salary(salary, salary_in)}
        /\ resp' = Response("update_salary", <<>>, 200, "ok",
                      <<crud_update_salary(salary, salary_in)>>, Null)
        /\ UNCHANGED <<employees, next_salary_id, reqs, hr>>

\* A variant of the rollover handler that ignores the effective_from query
\* parameter and always starts the new row today.
update_current_salary_today(current_user, employee_id, new_salary, effective_from) ==
    IF ~can_update_salary(current_user)
    THEN Raise("update_current_salary", <<>>, 403, "forbidden")
    ELSE IF ~(new_salary > 0)
    THEN Raise("update_current_salary", <<>>, 422, "validation")
    ELSE IF employee_id \notin DOMAIN employees
    THEN Raise("update_current_salary", <<>>, 404, "employee")
    ELSE
      /\ crud_update_current_salary(employee_id, new_salary, Today)
      /\ resp' = Response("update_current_salary", <<>>, 200, "ok",
                    <<NewCurrentRow(employee_id, new_salary, Today)>>, Null)
      /\ UNCHANGED <<employees, reqs, hr>>

\* A variant of the rollover handler whose data access closes the open row,
\* commits, and only then fails on a start date that is not after the open
\* row's: the exception becomes a 400 and the closed row stays closed.
update_current_salary_partial(current_user, employee_id, new_salary, effective_from) ==
    IF ~can_update_salary(current_user)
    THEN Raise("update_current_salary", <<>>, 403, "forbidden")
    ELSE IF ~(new_salary > 0)
    THEN Raise("update_current_salary", <<>>, 422, "validation")
    ELSE IF employee_id \notin DOMAIN employees
    THEN Raise("update_current_salary", <<>>, 404, "employee")
    ELSE IF \E c \in OpenSalariesOf(employee_id) :
               effective_from <= c.effective_from
    THEN
      \E c \in OpenSalariesOf(employee_id) :
        /\ effective_from <= c.effective_from
        /\ salaries' = (salaries \ {c}) \cup {ClosedRow(c, effective_from)}
        /\ resp' = Response("update_current_salary", <<>>, 400, "error",
                      <<>>, Null)
        /\ UNCHANGED <<employees, next_salary_id, reqs, hr>>
    ELSE
      /\ crud_update_current_salary(employee_id, new_salary, effective_from)
      /\ resp' = Response("update_current_salary", <<>>, 200, "ok",
                    <<NewCurrentRow(employee_id, new_salary, effective_from)>>,
                    Null)
      /\ UNCHANGED <<employees, reqs, hr>>

\* A variant of the rollover handler whose new_salary parameter is declared
\* ge=0 instead of gt=0.
update_current_salary_ge0(current_user, employee_id, new_salary, effective_from) ==
    IF ~can_update_salary(current_user)
    THEN Raise("update_current_salary", <<>>, 403, "forbidden")
    ELSE IF ~(new_salary >= 0)
    THEN Raise("update_current_salary", <<>>, 422, "validation")
    ELSE IF employee_id \notin DOMAIN employees
    THEN Raise("update_current_salary", <<>>, 404, "employee")
    ELSE
      /\ crud_update_current_salary(employee_id, new_salary, effective_from)
      /\ resp' = Response("update_current_salary", <<>>, 200, "ok",
                    <<NewCurrentRow(employee_id, new_salary, effective_from)>>,
                    Null)
      /\ UNCHANGED <<employees, reqs, hr>>

\* POST /salaries/employee/{employee_id}/update-current
update_current_salary(current_user, employee_id, new_salary, effective_from) ==
    IF ~can_update_salary(current_user)
    THEN Raise("update_current_salary", <<>>, 403, "forbidden")
    ELSE IF ~(new_salary > 0)
    THEN Raise("update_current_salary", <<>>, 422, "validation")
    ELSE IF employee_id \notin DOMAIN employees
    THEN Raise("update_current_salary", <<>>, 404, "employee")
    ELSE
      /\ crud_update_current_salary(employee_id, new_salary, effective_from)
      /\ resp' = Response("update_current_salary", <<>>, 200, "ok",
                    <<NewCurrentRow(employee_id, new_salary, effective_from)>>,
                    Null)
      /\ UNCHANGED <<employees, reqs, hr>>

\* DELETE /salaries/{salary_id}
delete_salary(current_user, salary_id) ==
    IF ~can_delete_salary(current_user)
    THEN Raise("delete_salary", <<>>, 403, "forbidden")
    ELSE IF ~(\E s \in salaries : s.id = salary_id)
    THEN Raise("delete_salary", <<>>, 404, "salary")
    ELSE
      /\ salaries' = {s \in salaries : s.id # salary_id}
      /\ resp' = Response("delete_salary", <<>>, 204, "ok", <<>>, Null)
      /\ UNCHANGED <<employees, next_salary_id, reqs, hr>>

\* A variant of the lookup handler that does not pass as_of_date on, so the
\* data access always answers for today.
get_current_salary_today(current_user, employee_id, as_of_date) ==
    LET args == <<employee_id, as_of_date>> IN
    IF employee_id \notin DOMAIN employees
    THEN Raise("get_current_salary", args, 404, "employee")
    ELSE IF ~check_resource_ownership(current_user, employee_id)
    THEN Raise("get_current_salary", args, 403, "forbidden")
    ELSE
      \E salary \in crud_get_current_salary(employee_id, Null) :
         IF salary = Null
         THEN Raise("get_current_salary", args, 404, "salary")
         ELSE
           /\ resp' = Response("get_current_salary", args, 200, "ok",
                         <<salary[1]>>, Null)
           /\ UNCHANGED <<employees, salaries, next_salary_id, reqs, hr>>

\* GET /salaries/employee/{employee_id}/current
get_current_salary(current_user, employee_id, as_of_date) ==
    LET args == <<employee_id, as_of_date>> IN
    IF employee_id \notin DOMAIN employees
    THEN Raise("get_current_salary", args, 404, "employee")
    ELSE IF ~check_resource_ownership(current_user, employee_id)
    THEN Raise("get_current_salary", args, 403, "forbidden")
    ELSE
      \E salary \in crud_get_current_salary(employee_id, as_of_date) :
         IF salary = Null
         THEN Raise("get_current_salary", args, 404, "salary")
         ELSE
           /\ resp' = Response("get_current_salary", args, 200, "ok",
                         <<salary[1]>>, Null)
           /\ UNCHANGED <<employees, salaries, next_salary_id, reqs, hr>>

\* Rows in ascending primary-key order, as crud_salary.get_by_employee
\* would give them.
RECURSIVE SortRowsById(_)
SortRowsById(rows) ==
    IF rows = {} THEN <<>>
    ELSE LET first == CHOOSE s \in rows : \A t \in rows : s.id <= t.id
         IN  <<first>> \o SortRowsById(rows \ {first})

\* A variant of the history handler that lists the rows with get_by_employee
\* (primary-key order) instead of get_salary_history.
get_salary_history_by_id(current_user, employee_id) ==
    IF employee_id \notin DOMAIN employees
    THEN Raise("get_salary_history", <<employee_id>>, 404, "employee")
    ELSE IF ~check_resource_ownership(current_user, employee_id)
    THEN Raise("get_salary_history", <<employee_id>>, 403, "forbidden")
    ELSE
      \E current \in crud_get_current_salary(employee_id, Null) :
         /\ resp' = Response("get_salary_history", <<employee_id>>, 200, "ok",
                       SortRowsById(SalariesOf(employee_id)),
                       IF current = Null THEN Null
                       ELSE Some(current[1].base_salary))
         /\ UNCHANGED <<employees, salaries, next_salary_id, reqs, hr>>

\* GET /salaries/employee/{employee_id}/history
get_salary_history(current_user, employee_id) ==
    IF employee_id \notin DOMAIN employees
    THEN Raise("get_salary_history", <<employee_id>>, 404, "employee")
    ELSE IF ~check_resource_ownership(current_user, employee_id)
    THEN Raise("get_salary_history", <<employee_id>>, 403, "forbidden")
    ELSE
      \E current \in crud_get_current_salary(employee_id, Null) :
         /\ resp' = Response("get_salary_history", <<employee_id>>, 200, "ok",
                       crud_get_salary_history(employee_id),
                       IF current = Null THEN Null
                       ELSE Some(current[1].base_salary))
         /\ UNCHANGED <<employees, salaries, next_salary_id, reqs, hr>>

\* PUT /employees/{employee_id} with CRUDEmployee.update, the hire_date field.
update_employee(current_user, employee_id, employee_in) ==
    IF ~can_update_employee(current_user)
    THEN Raise("update_employee", <<>>, 403, "forbidden")
    ELSE IF ~ValidEmployeeUpdate(employee_in)
    THEN Raise("update_employee", <<>>, 422, "validation")
    ELSE IF employee_id \notin DOMAIN employees
    THEN Raise("update_employee", <<>>, 404, "employee")
    ELSE
      /\ employees' =
            [employees EXCEPT ![employee_id].hire_date =
                IF employee_in.hire_date = Null THEN @
                ELSE employee_in.hire_date[1]]
      /\ resp' = Response("update_employee", <<>>, 200, "ok", <<>>, Null)
      /\ UNCHANGED <<salaries, next_salary_id, reqs, hr>>

\* ------------------------------------------- concurrent create_salary
\* A create_salary request as two steps of its own database session: the
\* reads and checks of lines 200-226, then the insert of line 228.  Nothing
\* in the handler locks the employee's rows between the two.
IdleRequest ==
    [pc |-> "idle", salary_in |-> Null, checked_at |-> 0, row_id |-> 0]

\* Lines 200-226.  checked_at remembers the next primary key at the time of
\* the check: the rows with a smaller id are the ones the check could see.
create_salary_begin(r, current_user, salary_in) ==
    /\ reqs[r].pc = "idle"
    /\ \E outcome \in create_salary_checks(current_user, salary_in) :
         IF outcome[1] # 201
         THEN /\ resp' = Response("create_salary", <<>>, outcome[1],
                                  outcome[2], <<>>, Null)
              /\ UNCHANGED <<employees, salaries, next_salary_id, reqs, hr>>
         ELSE /\ reqs' = [reqs EXCEPT ![r] =
                    [pc |-> "insert", salary_in |-> Some(salary_in),
                     checked_at |-> next_salary_id, row_id |-> 0]]
              /\ UNCHANGED <<employees, salaries, next_salary_id, resp, hr>>

\* Line 228 and the response.
create_salary_commit(r) ==
    /\ reqs[r].pc = "insert"
    /\ crud_create_salary(reqs[r].salary_in[1])
    /\ resp' = Response("create_salary", <<>>, 201, "ok",
                  <<NewSalaryRow(reqs[r].salary_in[1])>>, Null)
    /\ reqs' = [reqs EXCEPT ![r].pc = "done", ![r].row_id = next_salary_id]
    /\ UNCHANGED <<employees, hr>>

\* ---------------------------------------------------------- specification
Init ==
    /\ employees = [e \in EmpIds |-> [hire_date |-> Some(1)]]
    /\ salaries = {}
    /\ next_salary_id = 1
    /\ resp = Response("none", <<>>, 0, "none", <<>>, Null)
    /\ reqs = [r \in 1..NumRequests |-> IdleRequest]
    /\ attendances = {}
    /\ next_attendance_id = 1
    /\ leaves = {}
    /\ next_leave_id = 1
    /\ departments = {}
    /\ users = {}
    /\ next_employee_id = Cardinality(DOMAIN employees) + 1
    /\ next_user_id = 1

\* One request at a time, each handler from its first line to its last.
Next ==
    \/ \E u \in WriteCallers, salary_in \in SalaryCreateInputs :
          create_salary(u, salary_in)
    \/ \E u \in WriteCallers, id \in SalaryIds,
          salary_in \in SalaryUpdateInputs :
          update_salary(u, id, salary_in)
    \/ \E u \in WriteCallers, e \in ReqEmpIds, a \in ReqAmounts, d \in Dates :
          update_current_salary(u, e, a, d)
    \/ \E u \in WriteCallers, id \in SalaryIds : delete_salary(u, id)
    \/ \E u \in Callers, e \in ReqEmpIds, d \in OptDates :
          get_current_salary(u, e, d)
    \/ \E u \in Callers, e \in ReqEmpIds : get_salary_history(u, e)
    \/ \E u \in WriteCallers, e \in ReqEmpIds,
          employee_in \in EmployeeUpdateInputs :
          update_employee(u, e, employee_in)

Spec == Init /\ [][Next]_vars

\* Requests served in parallel: create_salary requests interleave between
\* their check and their insert; update_current_salary is one transaction.
ConcNext ==
    \/ \E r \in 1..NumRequests, u \in WriteCallers,
          salary_in \in SalaryCreateInputs :
          create_salary_begin(r, u, salary_in)
    \/ \E r \in 1..NumRequests : create_salary_commit(r)
    \/ \E u \in WriteCallers, e \in ReqEmpIds, a \in ReqAmounts, d \in Dates :
          update_current_salary(u, e, a, d)

SpecConc == Init /\ [][ConcNext]_vars

\* =================================================================== claims
\* The as-of date a lookup request asks about.
AsOf(as_of_date) == IF as_of_date = Null THEN Today ELSE as_of_date[1]

\* The rows of an employee in force on day d.
InForce(employee_id, d) ==
    {s \in SalariesOf(employee_id) :
        /\ s.effective_from <= d
        /\ (s.effective_to = Null \/ s.effective_to[1] >= d)}

\* C1: after any sequence of create_salary, update_salary, update_current_salary
\* and delete_salary, every employee has at most one Salary row whose
\* effective_to is null.
C1_AtMostOneOpenSalary ==
    \A e \in DOMAIN employees : Cardinality(OpenSalariesOf(e)) <= 1

\* C2: two create_salary requests for the same employee whose checks and
\* inserts interleave never both pass the "no open salary" check and both
\* insert a row with effective_to = null.  (Neither request saw the other's
\* row: each check ran before the other's insert.)
C2_NoRacingOpenInserts ==
    ~ \E r1 \in 1..NumRequests, r2 \in 1..NumRequests :
         /\ r1 # r2
         /\ reqs[r1].pc = "done"
         /\ reqs[r2].pc = "done"
         /\ reqs[r1].salary_in[1].employee_id = reqs[r2].salary_in[1].employee_id
         /\ reqs[r1].salary_in[1].effective_to = Null
         /\ reqs[r2].salary_in[1].effective_to = Null
         /\ reqs[r1].checked_at <= reqs[r2].row_id
         /\ reqs[r2].checked_at <= reqs[r1].row_id

\* C3: create_salary for an employee who already has an open Salary row is
\* rejected and inserts no row, whatever effective_from it asks for (also one
\* earlier than the open row's effective_from).
C3_CreateRejectedWhileOpen ==
    [][resp'.op = "create_salary" =>
       \A u \in WriteCallers, salary_in \in SalaryCreateInputs :
          ( /\ salary_in.employee_id \in DOMAIN employees
            /\ OpenSalariesOf(salary_in.employee_id) # {}
            /\ create_salary(u, salary_in) )
          => (resp'.status >= 400 /\ salaries' = salaries)]_vars

\* C4: every Salary row has effective_from >= its employee's hire_date after
\* any sequence of create_salary, update_salary, update_current_salary and
\* employee updates.
C4_EffectiveFromNotBeforeHire ==
    \A s \in salaries :
       (s.employee_id \in DOMAIN employees
          /\ employees[s.employee_id].hire_date # Null)
       => s.effective_from >= employees[s.employee_id].hire_date[1]

\* C5: get_current_salary(e, d) answers with a row of e in force on d, the one
\* with the latest effective_from among those in force, and answers not-found
\* exactly when no row of e is in force on d.
C5_GetCurrentSalaryResult ==
    (resp.op = "get_current_salary" /\ resp.status # 403)
    => LET e == resp.args[1]
           d == AsOf(resp.args[2])
       IN  /\ (resp.status = 404 <=> InForce(e, d) = {})
           /\ (resp.status # 404 =>
                 /\ resp.status = 200
                 /\ Len(resp.body) = 1
                 /\ resp.body[1] \in InForce(e, d)
                 /\ \A t \in InForce(e, d) :
                       t.effective_from <= resp.body[1].effective_from)

\* C5 witness: a lookup answered with a row while two rows of the employee
\* that started on different days were in force on the day asked about.
C5_Witness ==
    /\ resp.op = "get_current_salary"
    /\ resp.status = 200
    /\ \E s \in InForce(resp.args[1], AsOf(resp.args[2])) :
          s.effective_from < resp.body[1].effective_from

\* The rows an employee has right after a rollover of its only row: the old
\* row closed the day before f and a new open row of amount s starting at f.
RolledOver(old, e, s, f) ==
    {[old EXCEPT !.effective_to = Some(f - 1)],
     [id |-> next_salary_id, employee_id |-> e, base_salary |-> s,
      effective_from |-> f, effective_to |-> Null]}

\* C6, the write: for an employee whose only row is open, of amount a and
\* starting at f0, update_current_salary(e, s, f) with f > f0 leaves exactly
\* the old row closed the day before f and a new open row of amount s from f.
C6_RolloverStep ==
    resp'.op = "update_current_salary" =>
    \A u \in WriteCallers, e \in EmpIds, s \in Amounts, f \in Dates :
       ( /\ can_update_salary(u)
         /\ e \in DOMAIN employees
         /\ \E old \in salaries :
               /\ SalariesOf(e) = {old}
               /\ old.effective_to = Null
               /\ f > old.effective_from
         /\ update_current_salary(u, e, s, f) )
       => /\ resp'.status = 200
          /\ \E old \in salaries :
                /\ SalariesOf(e) = {old}
                /\ {r \in salaries' : r.employee_id = e}
                      = RolledOver(old, e, s, f)

\* C6, the reads afterwards: whenever an employee's rows are an old row of
\* amount a in force from f0 to the day before f and an open row of amount s
\* from f, with f0 < f, get_current_salary(e, d) answers s for every d >= f
\* and a for every d with f0 <= d < f.
C6_LookupAfterRollover ==
    (resp.op = "get_current_salary" /\ resp.detail \in {"ok", "salary"})
    => \A old \in salaries, new \in salaries :
          ( /\ SalariesOf(resp.args[1]) = {old, new}
            /\ new.effective_to = Null
            /\ old.effective_from < new.effective_from
            /\ old.effective_to = Some(new.effective_from - 1) )
          => LET d == AsOf(resp.args[2]) IN
             /\ (d >= new.effective_from =>
                   resp.status = 200
                     /\ resp.body[1].base_salary = new.base_salary)
             /\ (old.effective_from <= d /\ d < new.effective_from =>
                   resp.status = 200
                     /\ resp.body[1].base_salary = old.base_salary)

\* C6: the salary rollover scenario, the write and the reads after it.
C6_Rollover == [][C6_RolloverStep]_vars /\ []C6_LookupAfterRollover

\* C6 witness: the rollover has just succeeded on an employee whose only row
\* was open with another amount: the old row is closed the day before the new
\* one starts.
C6_Witness ==
    /\ resp.op = "update_current_salary"
    /\ resp.status = 200
    /\ \E old \in salaries :
          /\ SalariesOf(resp.body[1].employee_id) = {old, resp.body[1]}
          /\ old.effective_from < resp.body[1].effective_from
          /\ old.effective_to = Some(resp.body[1].effective_from - 1)
          /\ old.base_salary # resp.body[1].base_salary
          /\ resp.body[1].effective_to = Null

C8_NoInPlaceAmountChange ==
    [][/\ \A s \in salaries : \A t \in salaries' :
             t.id = s.id => t.base_salary = s.base_salary
       /\ (\E s \in salaries : \A t \in salaries' : t.id # s.id)
             => resp'.op = "delete_salary"]_vars

\* C9: update_current_salary with new_salary <= 0 fails with an error and
\* leaves every Salary row unchanged (the open row stays open).
C9_NonPositiveSalaryRejected ==
    [][resp'.op = "update_current_salary" =>
       \/ (resp'.status >= 400 /\ salaries' = salaries)
       \/ \A u \in WriteCallers, e \in ReqEmpIds, a \in ReqAmounts,
             f \in Dates :
             ~(a <= 0 /\ update_current_salary(u, e, a, f))]_vars

\* C9 witness: a rollover request was refused by the amount validation while
\* an employee had an open row.
C9_Witness ==
    /\ resp.op = "update_current_salary"
    /\ resp.status = 422
    /\ \E e \in DOMAIN employees : OpenSalariesOf(e) # {}

\* C10, the answer: get_salary_history(e) lists every Salary row of e exactly
\* once, in ascending effective_from order.
C10_HistoryOrdered ==
    (resp.op = "get_salary_history" /\ resp.status = 200)
    => /\ Len(resp.body) = Cardinality(SalariesOf(resp.args[1]))
       /\ {resp.body[i] : i \in 1..Len(resp.body)} = SalariesOf(resp.args[1])
       /\ \A i \in 1..Len(resp.body), j \in 1..Len(resp.body) :
             i < j => resp.body[i].effective_from <= resp.body[j].effective_from

\* C10, the repetition: a get_salary_history(e) that directly follows another
\* one (no write in between) lists the same rows in the same order.
C10_HistoryRepeats ==
    ( /\ resp.op = "get_salary_history" /\ resp.status = 200
      /\ resp'.op = "get_salary_history" /\ resp'.status = 200
      /\ resp'.args = resp.args )
    => resp'.body = resp.body

MaxTime == 1

MaxAttendanceRows == 2

\* Times of day a check-in or check-out may carry or the clock may show.
Times == 1..MaxTime

OptTimes == {Null} \cup {Some(t) : t \in Times}

\* AttendanceStatus values a row may carry.
AttendanceStatuses == {"present", "late", "absent"}

AttendanceIds == 1..MaxAttendanceRows

\* Permissions of the attendance endpoints.
can_create_attendance(current_user) ==
    current_user.role \in {"admin", "manager"}

can_update_attendance(current_user) ==
    current_user.role \in {"admin", "manager"}

can_delete_attendance(current_user) == current_user.role = "admin"

\* Every handler of this part leaves the salary, employee and leave tables
\* and the requests in flight alone.
AttendanceFrame ==
    UNCHANGED <<employees, salaries, next_salary_id, reqs, leaves,
                next_leave_id, org>>

\* crud_attendance.get_by_employee_and_date, and the query of lines 108-111.
get_by_employee_and_date(employee_id, attendance_date) ==
    {a \in attendances :
        a.employee_id = employee_id /\ a.date = attendance_date}

\* The row crud_attendance.create inserts for an AttendanceCreate.
NewAttendanceRow(obj_in) ==
    [id |-> next_attendance_id,
     employee_id |-> obj_in.employee_id,
     date |-> obj_in.date,
     check_in_time |-> obj_in.check_in_time,
     check_out_time |-> obj_in.check_out_time,
     status |-> obj_in.status]

\* crud_attendance.create: one new row with the next primary key.
crud_create_attendance(obj_in) ==
    /\ next_attendance_id <= MaxAttendanceRows
    /\ attendances' = attendances \cup {NewAttendanceRow(obj_in)}
    /\ next_attendance_id' = next_attendance_id + 1

\* The outcomes of crud_attendance.check_in for today: a ValueError when a
\* row exists for (employee, today), an integrity error when the employee does
\* not exist, else the new row, checked in at the given time or at the
\* current time, with the status the time of day gives it.
crud_check_in(employee_id, check_in_time) ==
    IF get_by_employee_and_date(employee_id, Today) # {}
    THEN {[error |-> "ValueError"]}
    ELSE IF employee_id \notin DOMAIN employees
    THEN {[error |-> "IntegrityError"]}
    ELSE {[error |-> "none",
           row |-> [id |-> next_attendance_id, employee_id |-> employee_id,
                    date |-> Today, check_in_time |-> Some(t),
                    check_out_time |-> Null, status |-> st]] :
            t \in (IF check_in_time = Null THEN Times ELSE {check_in_time[1]}),
            st \in {"present", "late"}}

\* The outcomes of crud_attendance.check_out for today: a ValueError when no
\* row exists for (employee, today), when the row has no check_in_time or when
\* it is checked out already, else the row with check_out_time recorded.
crud_check_out(employee_id, check_out_time) ==
    LET rows == get_by_employee_and_date(employee_id, Today) IN
    IF rows = {} \/ \A a \in rows :
                       a.check_in_time = Null \/ a.check_out_time # Null
    THEN {[error |-> "ValueError"]}
    ELSE {[error |-> "none", old |-> a,
           row |-> [a EXCEPT !.check_out_time = Some(t)]] :
            a \in {b \in rows : b.check_in_time # Null
                                  /\ b.check_out_time = Null},
            t \in (IF check_out_time = Null THEN Times
                   ELSE {check_out_time[1]})}

\* crud_attendance.update (CRUDBase.update) with an AttendanceUpdate: the
\* times and the status the request sets are written to the row in place.
crud_update_attendance(db_obj, obj_in) ==
    [db_obj EXCEPT
       !.check_in_time = IF obj_in.check_in_time = Null THEN @
                         ELSE obj_in.check_in_time[1],
       !.check_out_time = IF obj_in.check_out_time = Null THEN @
                          ELSE obj_in.check_out_time[1],
       !.status = IF obj_in.status = Null THEN @ ELSE obj_in.status[1]]

\* AttendanceCreate as a request may carry it.
AttendanceCreateInputs ==
    [employee_id : ReqEmpIds, date : Dates, check_in_time : OptTimes,
     check_out_time : OptTimes, status : {"present", "absent"}]

\* AttendanceUpdate: Null is "not set"; a time may be set to an explicit
\* null.  A request sets at most MaxFieldsSet of the fields.
AttendanceUpdateInputs ==
    {attendance_in \in
        [check_in_time : {Null} \cup {Some(t) : t \in OptTimes},
         check_out_time : {Null} \cup {Some(t) : t \in OptTimes},
         status : {Null} \cup {Some(st) : st \in AttendanceStatuses}] :
       FieldsSet(attendance_in) <= MaxFieldsSet}

\* AttendanceCheckIn / AttendanceCheckOut: the employee and an optional time.
CheckInInputs == [employee_id : ReqEmpIds, check_in_time : OptTimes]

CheckOutInputs == [employee_id : ReqEmpIds, check_out_time : OptTimes]

\* POST /attendances/, lines 99-117 (the first of the two handlers registered
\* for the route, which is the one that serves it): the outcome of everything
\* before the insert, <<201, "ok">> when the request may insert.
create_attendance_checks(current_user, attendance_in) ==
    IF ~can_create_attendance(current_user) THEN <<403, "forbidden">>
    ELSE IF attendance_in.employee_id \notin DOMAIN employees
    THEN <<404, "employee">>
    ELSE IF get_by_employee_and_date(attendance_in.employee_id,
                                     attendance_in.date) # {}
    THEN <<400, "exists">>
    ELSE <<201, "ok">>

\* A variant of the manual-create handler without the "already exists for
\* this date" check of lines 106-117.
create_attendance_unchecked(current_user, attendance_in) ==
    IF ~can_create_attendance(current_user)
    THEN Raise("create_attendance", <<>>, 403, "forbidden")
    ELSE IF attendance_in.employee_id \notin DOMAIN employees
    THEN Raise("create_attendance", <<>>, 404, "employee")
    ELSE
      /\ crud_create_attendance(attendance_in)
      /\ resp' = Response("create_attendance", <<>>, 201, "ok", <<>>, Null)
      /\ AttendanceFrame

\* POST /attendances/
create_attendance(current_user, attendance_in) ==
    LET outcome == create_attendance_checks(current_user, attendance_in) IN
    IF outcome[1] # 201
    THEN Raise("create_attendance", <<>>, outcome[1], outcome[2])
    ELSE
      /\ crud_create_attendance(attendance_in)
      /\ resp' = Response("create_attendance", <<>>, 201, "ok", <<>>, Null)
      /\ AttendanceFrame

\* A variant of the check-in handler that, when a row exists for today,
\* records the check-in on that row instead of refusing.
check_in_again(current_user, check_in_data) ==
    LET args == <<check_in_data.employee_id>> IN
    IF ~check_resource_ownership(current_user, check_in_data.employee_id)
    THEN Raise("check_in", args, 403, "forbidden")
    ELSE
      \E result \in crud_check_in(check_in_data.employee_id,
                                  check_in_data.check_in_time) :
         IF result.error = "ValueError"
         THEN \E a \in get_by_employee_and_date(check_in_data.employee_id,
                                                Today), t \in Times :
                /\ attendances' = (attendances \ {a}) \cup
                      {[a EXCEPT !.check_in_time = Some(t),
                                 !.status = "present"]}
                /\ resp' = Response("check_in", args, 201, "ok", <<>>, Null)
                /\ UNCHANGED next_attendance_id
                /\ AttendanceFrame
         ELSE IF result.error = "IntegrityError"
         THEN Raise("check_in", args, 500, "foreign_key")
         ELSE
           /\ next_attendance_id <= MaxAttendanceRows
           /\ attendances' = attendances \cup {result.row}
           /\ next_attendance_id' = next_attendance_id + 1
           /\ resp' = Response("check_in", args, 201, "ok", <<>>, Null)
           /\ AttendanceFrame

\* POST /attendances/check-in
check_in(current_user, check_in_data) ==
    LET args == <<check_in_data.employee_id>> IN
    IF ~check_resource_ownership(current_user, check_in_data.employee_id)
    THEN Raise("check_in", args, 403, "forbidden")
    ELSE
      \E result \in crud_check_in(check_in_data.employee_id,
                                  check_in_data.check_in_time) :
         IF result.error = "ValueError"
         THEN Raise("check_in", args, 400, "ValueError")
         ELSE IF result.error = "IntegrityError"
         THEN Raise("check_in", args, 500, "foreign_key")
         ELSE
           /\ next_attendance_id <= MaxAttendanceRows
           /\ attendances' = attendances \cup {result.row}
           /\ next_attendance_id' = next_attendance_id + 1
           /\ resp' = Response("check_in", args, 201, "ok", <<>>, Null)
           /\ AttendanceFrame

\* A variant of the check-out handler that, when the row for today has no
\* check-in, records the check-out on it all the same.
check_out_anyway(current_user, check_out_data) ==
    LET args == <<check_out_data.employee_id>> IN
    IF ~check_resource_ownership(current_user, check_out_data.employee_id)
    THEN Raise("check_out", args, 403, "forbidden")
    ELSE
      \E result \in crud_check_out(check_out_data.employee_id,
                                   check_out_data.check_out_time) :
         IF result.error = "ValueError"
         THEN
           IF get_by_employee_and_date(check_out_data.employee_id,
                                       Today) = {}
           THEN Raise("check_out", args, 400, "ValueError")
           ELSE \E a \in get_by_employee_and_date(
                            check_out_data.employee_id, Today), t \in Times :
                  /\ attendances' = (attendances \ {a}) \cup
                        {[a EXCEPT !.check_out_time = Some(t)]}
                  /\ resp' = Response("check_out", args, 200, "ok", <<>>,
                                      Null)
                  /\ UNCHANGED next_attendance_id
                  /\ AttendanceFrame
         ELSE
           /\ attendances' = (attendances \ {result.old}) \cup {result.row}
           /\ resp' = Response("check_out", args, 200, "ok", <<>>, Null)
           /\ UNCHANGED next_attendance_id
           /\ AttendanceFrame

\* POST /attendances/check-out
check_out(current_user, check_out_data) ==
    LET args == <<check_out_data.employee_id>> IN
    IF ~check_resource_ownership(current_user, check_out_data.employee_id)
    THEN Raise("check_out", args, 403, "forbidden")
    ELSE
      \E result \in crud_check_out(check_out_data.employee_id,
                                   check_out_data.check_out_time) :
         IF result.error = "ValueError"
         THEN Raise("check_out", args, 400, "ValueError")
         ELSE
           /\ attendances' = (attendances \ {result.old}) \cup {result.row}
           /\ resp' = Response("check_out", args, 200, "ok", <<>>, Null)
           /\ UNCHANGED next_attendance_id
           /\ AttendanceFrame

\* PUT /attendances/{attendance_id}
update_attendance(current_user, attendance_id, attendance_in) ==
    IF ~can_update_attendance(current_user)
    THEN Raise("update_attendance", <<>>, 403, "forbidden")
    ELSE IF ~(\E a \in attendances : a.id = attendance_id)
    THEN Raise("update_attendance", <<>>, 404, "attendance")
    ELSE
      LET attendance == CHOOSE a \in attendances : a.id = attendance_id IN
      /\ attendances' = (attendances \ {attendance})
            \cup {crud_update_attendance(attendance, attendance_in)}
      /\ resp' = Response("update_attendance", <<>>, 200, "ok", <<>>, Null)
      /\ UNCHANGED next_attendance_id
      /\ AttendanceFrame

\* DELETE /attendances/{attendance_id}
delete_attendance(current_user, attendance_id) ==
    IF ~can_delete_attendance(current_user)
    THEN Raise("delete_attendance", <<>>, 403, "forbidden")
    ELSE IF ~(\E a \in attendances : a.id = attendance_id)
    THEN Raise("delete_attendance", <<>>, 404, "attendance")
    ELSE
      /\ attendances' = {a \in attendances : a.id # attendance_id}
      /\ resp' = Response("delete_attendance", <<>>, 204, "ok", <<>>, Null)
      /\ UNCHANGED next_attendance_id
      /\ AttendanceFrame

\* The attendance endpoints, one request at a time.
AttendanceNext ==
    \/ \E u \in WriteCallers, attendance_in \in AttendanceCreateInputs :
          create_attendance(u, attendance_in)
    \/ \E u \in Callers, check_in_data \in CheckInInputs :
          check_in(u, check_in_data)
    \/ \E u \in Callers, check_out_data \in CheckOutInputs :
          check_out(u, check_out_data)
    \/ \E u \in WriteCallers, id \in AttendanceIds,
          attendance_in \in AttendanceUpdateInputs :
          update_attendance(u, id, attendance_in)
    \/ \E u \in WriteCallers, id \in AttendanceIds : delete_attendance(u, id)

SpecAttendance == Init /\ [][AttendanceNext]_vars

\* A create_attendance request as two steps of its own database session: the
\* reads and checks of lines 99-117, then the insert of line 119.  Nothing in
\* the handler locks the (employee, date) pair between the two.
create_attendance_begin(r, current_user, attendance_in) ==
    /\ reqs[r].pc = "idle"
    /\ LET outcome == create_attendance_checks(current_user, attendance_in)
       IN  IF outcome[1] # 201
           THEN Raise("create_attendance", <<>>, outcome[1], outcome[2])
           ELSE /\ reqs' = [reqs EXCEPT ![r] =
                      [pc |-> "insert", attendance_in |-> Some(attendance_in),
                       checked_at |-> next_attendance_id, row_id |-> 0]]
                /\ UNCHANGED <<employees, salaries, next_salary_id, resp, hr>>

\* Line 119 and the response.
create_attendance_commit(r) ==
    /\ reqs[r].pc = "insert"
    /\ crud_create_attendance(reqs[r].attendance_in[1])
    /\ resp' = Response("create_attendance", <<>>, 201, "ok", <<>>, Null)
    /\ reqs' = [reqs EXCEPT ![r].pc = "done",
                            ![r].row_id = next_attendance_id]
    /\ UNCHANGED <<employees, salaries, next_salary_id, leaves,
                   next_leave_id, org>>

\* Requests served in parallel: create_attendance requests interleave between
\* their check and their insert, with each other and with check-ins.
AttendanceConcNext ==
    \/ \E r \in 1..NumRequests, u \in WriteCallers,
          attendance_in \in AttendanceCreateInputs :
          create_attendance_begin(r, u, attendance_in)
    \/ \E r \in 1..NumRequests : create_attendance_commit(r)
    \/ \E u \in Callers, check_in_data \in CheckInInputs :
          check_in(u, check_in_data)

SpecAttendanceConc == Init /\ [][AttendanceConcNext]_vars

\* ------------------------------------------------------ attendance claims
\* C11: after any sequence of check_in, check_out, create_attendance,
\* update_attendance and delete_attendance, there is at most one Attendance
\* row for each (employee, calendar date) pair.
C11_OneAttendancePerDay ==
    \A a \in attendances, b \in attendances :
       (a.employee_id = b.employee_id /\ a.date = b.date) => a = b

\* C11 witness: two rows are on file and a further create_attendance or
\* check_in has just been refused because its (employee, date) has a row.
C11_Witness ==
    /\ Cardinality(attendances) >= 2
    /\ resp.op \in {"create_attendance", "check_in"}
    /\ resp.status = 400

\* C12: check_in for an (employee, date) that already has an Attendance row
\* fails (with the data access's "already exists" error when the caller may
\* check in for that employee) and leaves every row, that one with its
\* check_in_time and status included, unchanged.
C12_CheckInTwiceRefused ==
    [][resp'.op = "check_in" =>
       \A u \in Callers, check_in_data \in CheckInInputs :
          ( /\ get_by_employee_and_date(check_in_data.employee_id, Today) # {}
            /\ check_in(u, check_in_data) )
          => /\ attendances' = attendances
             /\ resp'.status >= 400
             /\ (check_resource_ownership(u, check_in_data.employee_id)
                   => resp'.status = 400 /\ resp'.detail = "ValueError")]_vars

\* C12 witness: a check-in was refused for an employee who has checked in
\* today.
C12_Witness ==
    /\ resp.op = "check_in"
    /\ resp.status = 400
    /\ \E a \in get_by_employee_and_date(resp.args[1], Today) :
          a.check_in_time # Null

\* C13: check_out for an (employee, date) with no Attendance row, or with a
\* row that has no check_in_time, fails with the data access's validation
\* error and creates or changes no row; no row check_out writes has
\* check_out_time set while check_in_time is missing.
C13_CheckOutNeedsCheckIn ==
    [][resp'.op = "check_out" =>
       \A u \in Callers, check_out_data \in CheckOutInputs :
          check_out(u, check_out_data)
          => /\ (\A a \in get_by_employee_and_date(check_out_data.employee_id,
                                                    Today) :
                    a.check_in_time = Null)
                 => /\ attendances' = attendances
                    /\ resp'.status >= 400
                    /\ (check_resource_ownership(u,
                                                 check_out_data.employee_id)
                          => resp'.status = 400
                               /\ resp'.detail = "ValueError")
             /\ \A a \in attendances' \ attendances :
                   a.check_out_time # Null => a.check_in_time # Null]_vars

\* C13 witness: a check-out was refused for an employee whose row of today has
\* no check_in_time.
C13_Witness ==
    /\ resp.op = "check_out"
    /\ resp.status = 400
    /\ \E a \in get_by_employee_and_date(resp.args[1], Today) :
          a.check_in_time = Null

\* C14: two create_attendance (or check_in) requests for the same employee
\* and date whose existence checks and inserts interleave never both insert
\* an Attendance row for that (employee, date).
C14_NoRacingAttendanceInserts ==
    ~ \E r1 \in 1..NumRequests, r2 \in 1..NumRequests :
         /\ r1 # r2
         /\ reqs[r1].pc = "done"
         /\ reqs[r2].pc = "done"
         /\ reqs[r1].attendance_in[1].employee_id
               = reqs[r2].attendance_in[1].employee_id
         /\ reqs[r1].attendance_in[1].date = reqs[r2].attendance_in[1].date
         /\ reqs[r1].checked_at <= reqs[r2].row_id
         /\ reqs[r2].checked_at <= reqs[r1].row_id

\* =================================================================== leaves
\* Bounds of the leave model.
NumLeaveEmployees == 2

MaxLeaveDate == 2

MaxLeaveRows == 2

LeaveEmpIds == 1..NumLeaveEmployees

\* Employee ids a leave request may name: the last one never exists.
ReqLeaveEmpIds == 1..(NumLeaveEmployees + 1)

LeaveDates == 1..MaxLeaveDate

OptLeaveDates == {Null} \cup {Some(d) : d \in LeaveDates}

LeaveIds == 1..MaxLeaveRows

\* LeaveStatus
LeaveStatuses == {"pending", "approved", "rejected", "cancelled"}

\* The user accounts: an admin and a manager with no linked employee, and
\* one user of role employee for each of two employees.
Users ==
    {[id |-> 1, role |-> "admin", employee_id |-> Null],
     [id |-> 2, role |-> "manager", employee_id |-> Null],
     [id |-> 3, role |-> "employee", employee_id |-> Some(1)],
     [id |-> 4, role |-> "employee", employee_id |-> Some(2)]}

\* Permissions of the leave endpoints.
can_approve_leave(current_user) == current_user.role \in {"admin", "manager"}

can_delete_leave(current_user) == current_user.role = "admin"

\* Every handler of this part leaves the salary, employee and attendance
\* tables and the requests in flight alone.
LeaveFrame ==
    UNCHANGED <<employees, salaries, next_salary_id, reqs, attendances,
                next_attendance_id, org>>

\* The days of the range [start_date, end_date].
DaysOf(start_date, end_date) == {d \in LeaveDates : start_date <= d /\ d <= end_date}

\* crud_leave.check_leave_conflict: some pending or approved leave of the
\* employee, other than exclude_leave_id, starts on or before end_date and
\* ends on or after start_date.
check_leave_conflict(employee_id, start_date, end_date, exclude_leave_id) ==
    \E l \in leaves :
       /\ l.employee_id = employee_id
       /\ l.status \in {"pending", "approved"}
       /\ Some(l.id) # exclude_leave_id
       /\ l.start_date <= end_date
       /\ l.end_date >= start_date

\* The row crud_leave.create inserts for a LeaveCreate: pending, not decided.
NewLeaveRow(obj_in) ==
    [id |-> next_leave_id,
     employee_id |-> obj_in.employee_id,
     start_date |-> obj_in.start_date,
     end_date |-> obj_in.end_date,
     status |-> "pending",
     approved_by |-> Null]

\* crud_leave.create: one new row with the next primary key.
crud_create_leave(obj_in) ==
    /\ next_leave_id <= MaxLeaveRows
    /\ leaves' = leaves \cup {NewLeaveRow(obj_in)}
    /\ next_leave_id' = next_leave_id + 1

\* crud_leave.update (CRUDBase.update) with a LeaveUpdate: the dates the
\* request sets are written to the row in place.
crud_update_leave(db_obj, obj_in) ==
    [db_obj EXCEPT
       !.start_date = IF obj_in.start_date = Null THEN @
                      ELSE obj_in.start_date[1],
       !.end_date = IF obj_in.end_date = Null THEN @
                    ELSE obj_in.end_date[1]]

\* The outcome of crud_leave.approve_leave / reject_leave: a ValueError when
\* the leave does not exist or is not pending (naming its status), else the
\* row decided by approver_id.
crud_decide_leave(leave_id, approver_id, decision) ==
    IF ~(\E l \in leaves : l.id = leave_id)
    THEN [error |-> "not_found", named |-> <<>>]
    ELSE LET leave == CHOOSE l \in leaves : l.id = leave_id IN
         IF leave.status # "pending"
         THEN [error |-> "status", named |-> <<leave.status>>]
         ELSE [error |-> "none", old |-> leave,
               row |-> [leave EXCEPT !.status = decision,
                                     !.approved_by = Some(approver_id)]]

crud_approve_leave(leave_id, approver_id) ==
    crud_decide_leave(leave_id, approver_id, "approved")

crud_reject_leave(leave_id, approver_id) ==
    crud_decide_leave(leave_id, approver_id, "rejected")

\* The outcome of crud_leave.cancel_leave(leave_id, employee_id): a
\* ValueError when the leave does not exist, is not the given employee's, or
\* is neither pending nor approved (naming its status), else the row
\* cancelled.
crud_cancel_leave(leave_id, employee_id) ==
    IF ~(\E l \in leaves : l.id = leave_id)
    THEN [error |-> "not_found", named |-> <<>>]
    ELSE LET leave == CHOOSE l \in leaves : l.id = leave_id IN
         IF Some(leave.employee_id) # employee_id
         THEN [error |-> "not_owner", named |-> <<>>]
         ELSE IF leave.status \notin {"pending", "approved"}
         THEN [error |-> "status", named |-> <<leave.status>>]
         ELSE [error |-> "none", old |-> leave,
               row |-> [leave EXCEPT !.status = "cancelled"]]

\* LeaveCreate as a request may carry it.
LeaveCreateInputs ==
    [employee_id : ReqLeaveEmpIds, start_date : LeaveDates,
     end_date : LeaveDates]

\* LeaveCreate: end_date is not before start_date.
ValidLeaveCreate(leave_in) == leave_in.end_date >= leave_in.start_date

\* LeaveUpdate: the two dates, each optional; Null is "not set".
LeaveUpdateInputs == [start_date : OptLeaveDates, end_date : OptLeaveDates]

\* LeaveUpdate: when both dates are set, end_date is not before start_date.
ValidLeaveUpdate(leave_in) ==
    (leave_in.start_date # Null /\ leave_in.end_date # Null)
       => leave_in.end_date[1] >= leave_in.start_date[1]

\* POST /leaves/, lines 241-278: the outcome of everything before the insert,
\* <<201, "ok">> when the request may insert.
create_leave_checks(current_user, leave_in) ==
    IF ~ValidLeaveCreate(leave_in) THEN <<422, "validation">>
    ELSE IF leave_in.employee_id \notin DOMAIN employees
    THEN <<404, "employee">>
    ELSE IF /\ employees[leave_in.employee_id].hire_date # Null
            /\ leave_in.start_date
                  < employees[leave_in.employee_id].hire_date[1]
    THEN <<400, "hire_date">>
    ELSE IF /\ current_user.role = "employee"
            /\ Some(leave_in.employee_id) # current_user.employee_id
    THEN <<403, "forbidden">>
    ELSE IF check_leave_conflict(leave_in.employee_id, leave_in.start_date,
                                 leave_in.end_date, Null)
    THEN <<400, "conflict">>
    ELSE <<201, "ok">>

\* A variant of the create handler without the conflict check of lines
\* 264-276.
create_leave_unchecked(current_user, leave_in) ==
    LET outcome == create_leave_checks(current_user, leave_in) IN
    IF outcome[1] # 201 /\ outcome[2] # "conflict"
    THEN Raise("create_leave", <<>>, outcome[1], outcome[2])
    ELSE
      /\ crud_create_leave(leave_in)
      /\ resp' = Response("create_leave", <<>>, 201, "ok", <<>>, Null)
      /\ LeaveFrame

\* POST /leaves/
create_leave(current_user, leave_in) ==
    LET outcome == create_leave_checks(current_user, leave_in) IN
    IF outcome[1] # 201
    THEN Raise("create_leave", <<>>, outcome[1], outcome[2])
    ELSE
      /\ crud_create_leave(leave_in)
      /\ resp' = Response("create_leave", <<>>, 201, "ok", <<>>, Null)
      /\ LeaveFrame

\* A variant of the update handler without the "only when pending" check of
\* lines 315-320.
update_leave_any_status(current_user, leave_id, leave_in) ==
    IF ~ValidLeaveUpdate(leave_in)
    THEN Raise("update_leave", <<leave_id>>, 422, "validation")
    ELSE IF ~(\E l \in leaves : l.id = leave_id)
    THEN Raise("update_leave", <<leave_id>>, 404, "leave")
    ELSE
      LET leave == CHOOSE l \in leaves : l.id = leave_id
          start == IF leave_in.start_date = Null THEN leave.start_date
                   ELSE leave_in.start_date[1]
          end == IF leave_in.end_date = Null THEN leave.end_date
                 ELSE leave_in.end_date[1]
      IN
      IF /\ current_user.role = "employee"
         /\ Some(leave.employee_id) # current_user.employee_id
      THEN Raise("update_leave", <<leave_id>>, 403, "forbidden")
      ELSE IF /\ (leave_in.start_date # Null \/ leave_in.end_date # Null)
              /\ check_leave_conflict(leave.employee_id, start, end,
                                      Some(leave_id))
      THEN Raise("update_leave", <<leave_id>>, 400, "conflict")
      ELSE
        /\ leaves' = (leaves \ {leave})
                        \cup {crud_update_leave(leave, leave_in)}
        /\ resp' = Response("update_leave", <<leave_id>>, 200, "ok", <<>>, Null)
        /\ UNCHANGED next_leave_id
        /\ LeaveFrame

\* PUT /leaves/{leave_id}
update_leave(current_user, leave_id, leave_in) ==
    IF ~ValidLeaveUpdate(leave_in)
    THEN Raise("update_leave", <<leave_id>>, 422, "validation")
    ELSE IF ~(\E l \in leaves : l.id = leave_id)
    THEN Raise("update_leave", <<leave_id>>, 404, "leave")
    ELSE
      LET leave == CHOOSE l \in leaves : l.id = leave_id
          start == IF leave_in.start_date = Null THEN leave.start_date
                   ELSE leave_in.start_date[1]
          end == IF leave_in.end_date = Null THEN leave.end_date
                 ELSE leave_in.end_date[1]
      IN
      IF /\ current_user.role = "employee"
         /\ Some(leave.employee_id) # current_user.employee_id
      THEN Raise("update_leave", <<leave_id>>, 403, "forbidden")
      ELSE IF leave.status # "pending"
      THEN /\ resp' = Response("update_leave", <<leave_id>>, 400, "status",
                               <<leave.status>>, Null)
           /\ UNCHANGED <<leaves, next_leave_id>>
           /\ LeaveFrame
      ELSE IF /\ (leave_in.start_date # Null \/ leave_in.end_date # Null)
              /\ check_leave_conflict(leave.employee_id, start, end,
                                      Some(leave_id))
      THEN Raise("update_leave", <<leave_id>>, 400, "conflict")
      ELSE
        /\ leaves' = (leaves \ {leave})
                        \cup {crud_update_leave(leave, leave_in)}
        /\ resp' = Response("update_leave", <<leave_id>>, 200, "ok", <<>>, Null)
        /\ UNCHANGED next_leave_id
        /\ LeaveFrame

\* The decision of crud_leave.approve_leave made whatever the status of the
\* leave is.
crud_approve_leave_any(leave_id, approver_id) ==
    IF ~(\E l \in leaves : l.id = leave_id)
    THEN [error |-> "not_found", named |-> <<>>]
    ELSE LET leave == CHOOSE l \in leaves : l.id = leave_id IN
         [error |-> "none", old |-> leave,
          row |-> [leave EXCEPT !.status = "approved",
                                !.approved_by = Some(approver_id)]]

\* A variant of the approve handler that approves a leave of any status.
approve_leave_any(current_user, leave_id) ==
    IF ~can_approve_leave(current_user)
    THEN Raise("approve_leave", <<leave_id>>, 403, "forbidden")
    ELSE
      LET result == crud_approve_leave_any(leave_id, current_user.id) IN
      IF result.error # "none"
      THEN /\ resp' = Response("approve_leave", <<leave_id>>, 400, result.error,
                               result.named, Null)
           /\ UNCHANGED <<leaves, next_leave_id>>
           /\ LeaveFrame
      ELSE /\ leaves' = (leaves \ {result.old}) \cup {result.row}
           /\ resp' = Response("approve_leave", <<leave_id>>, 200, "ok", <<>>, Null)
           /\ UNCHANGED next_leave_id
           /\ LeaveFrame

\* A variant of the approve handler that passes the id of the approver's
\* employee record, not the approver's user id, as approver_id.
approve_leave_by_employee(current_user, leave_id) ==
    IF ~can_approve_leave(current_user)
    THEN Raise("approve_leave", <<leave_id>>, 403, "forbidden")
    ELSE
      LET result == crud_approve_leave(leave_id, 0) IN
      IF result.error # "none"
      THEN /\ resp' = Response("approve_leave", <<leave_id>>, 400, result.error,
                               result.named, Null)
           /\ UNCHANGED <<leaves, next_leave_id>>
           /\ LeaveFrame
      ELSE /\ leaves' = (leaves \ {result.old}) \cup
                 {[result.row EXCEPT !.approved_by = current_user.employee_id]}
           /\ resp' = Response("approve_leave", <<leave_id>>, 200, "ok", <<>>, Null)
           /\ UNCHANGED next_leave_id
           /\ LeaveFrame

\* POST /leaves/{leave_id}/approve
approve_leave(current_user, leave_id) ==
    IF ~can_approve_leave(current_user)
    THEN Raise("approve_leave", <<leave_id>>, 403, "forbidden")
    ELSE
      LET result == crud_approve_leave(leave_id, current_user.id) IN
      IF result.error # "none"
      THEN /\ resp' = Response("approve_leave", <<leave_id>>, 400, result.error,
                               result.named, Null)
           /\ UNCHANGED <<leaves, next_leave_id>>
           /\ LeaveFrame
      ELSE /\ leaves' = (leaves \ {result.old}) \cup {result.row}
           /\ resp' = Response("approve_leave", <<leave_id>>, 200, "ok", <<>>, Null)
           /\ UNCHANGED next_leave_id
           /\ LeaveFrame

\* POST /leaves/{leave_id}/reject
reject_leave(current_user, leave_id) ==
    IF ~can_approve_leave(current_user)
    THEN Raise("reject_leave", <<leave_id>>, 403, "forbidden")
    ELSE
      LET result == crud_reject_leave(leave_id, current_user.id) IN
      IF result.error # "none"
      THEN /\ resp' = Response("reject_leave", <<leave_id>>, 400, result.error,
                               result.named, Null)
           /\ UNCHANGED <<leaves, next_leave_id>>
           /\ LeaveFrame
      ELSE /\ leaves' = (leaves \ {result.old}) \cup {result.row}
           /\ resp' = Response("reject_leave", <<leave_id>>, 200, "ok", <<>>, Null)
           /\ UNCHANGED next_leave_id
           /\ LeaveFrame

\* POST /leaves/{leave_id}/cancel
cancel_leave(current_user, leave_id) ==
    LET result == crud_cancel_leave(leave_id, current_user.employee_id) IN
    IF result.error # "none"
    THEN /\ resp' = Response("cancel_leave", <<leave_id>>, 400, result.error,
                             result.named, Null)
         /\ UNCHANGED <<leaves, next_leave_id>>
         /\ LeaveFrame
    ELSE /\ leaves' = (leaves \ {result.old}) \cup {result.row}
         /\ resp' = Response("cancel_leave", <<leave_id>>, 200, "ok", <<>>, Null)
         /\ UNCHANGED next_leave_id
         /\ LeaveFrame

\* DELETE /leaves/{leave_id}
delete_leave(current_user, leave_id) ==
    IF ~can_delete_leave(current_user)
    THEN Raise("delete_leave", <<leave_id>>, 403, "forbidden")
    ELSE IF ~(\E l \in leaves : l.id = leave_id)
    THEN Raise("delete_leave", <<leave_id>>, 404, "leave")
    ELSE
      /\ leaves' = {l \in leaves : l.id # leave_id}
      /\ resp' = Response("delete_leave", <<leave_id>>, 204, "ok", <<>>, Null)
      /\ UNCHANGED next_leave_id
      /\ LeaveFrame

\* Two employees on file, hired on day 1 and on day 2; no rows yet.
LeaveInit ==
    /\ employees = [e \in LeaveEmpIds |-> [hire_date |-> Some(e)]]
    /\ salaries = {}
    /\ next_salary_id = 1
    /\ resp = Response("none", <<>>, 0, "none", <<>>, Null)
    /\ reqs = [r \in 1..NumRequests |-> IdleRequest]
    /\ attendances = {}
    /\ next_attendance_id = 1
    /\ leaves = {}
    /\ next_leave_id = 1
    /\ departments = {}
    /\ users = {}
    /\ next_employee_id = Cardinality(DOMAIN employees) + 1
    /\ next_user_id = 1

\* The leave endpoints, one request at a time.
LeaveNext ==
    \/ \E u \in Users, leave_in \in LeaveCreateInputs :
          create_leave(u, leave_in)
    \/ \E u \in Users, id \in LeaveIds, leave_in \in LeaveUpdateInputs :
          update_leave(u, id, leave_in)
    \/ \E u \in Users, id \in LeaveIds : approve_leave(u, id)
    \/ \E u \in Users, id \in LeaveIds : reject_leave(u, id)
    \/ \E u \in Users, id \in LeaveIds : cancel_leave(u, id)
    \/ \E u \in Users, id \in LeaveIds : delete_leave(u, id)

SpecLeave == LeaveInit /\ [][LeaveNext]_vars

\* A create_leave request as two steps of its own database session: the reads
\* and checks of lines 241-276, then the insert of line 278.  Nothing in the
\* handler locks the employee's leaves between the two.
create_leave_begin(r, current_user, leave_in) ==
    /\ reqs[r].pc = "idle"
    /\ LET outcome == create_leave_checks(current_user, leave_in)
       IN  IF outcome[1] # 201
           THEN Raise("create_leave", <<>>, outcome[1], outcome[2])
           ELSE /\ reqs' = [reqs EXCEPT ![r] =
                      [pc |-> "insert", leave_in |-> Some(leave_in),
                       checked_at |-> next_leave_id, row_id |-> 0]]
                /\ UNCHANGED <<employees, salaries, next_salary_id, resp, hr>>

\* Line 278 and the response.
create_leave_commit(r) ==
    /\ reqs[r].pc = "insert"
    /\ crud_create_leave(reqs[r].leave_in[1])
    /\ resp' = Response("create_leave", <<>>, 201, "ok", <<>>, Null)
    /\ reqs' = [reqs EXCEPT ![r].pc = "done", ![r].row_id = next_leave_id]
    /\ UNCHANGED <<employees, salaries, next_salary_id, attendances,
                   next_attendance_id, org>>

\* Requests served in parallel: create_leave requests interleave between
\* their check and their insert, with each other and with cancellations.
LeaveConcNext ==
    \/ \E r \in 1..NumRequests, u \in Users, leave_in \in LeaveCreateInputs :
          create_leave_begin(r, u, leave_in)
    \/ \E r \in 1..NumRequests : create_leave_commit(r)
    \/ \E u \in Users, id \in LeaveIds : cancel_leave(u, id)

SpecLeaveConc == LeaveInit /\ [][LeaveConcNext]_vars

\* ----------------------------------------------------------- leave claims
\* The status changes the leave state machine allows.
LeaveTransitions ==
    {<<"pending", "approved">>, <<"pending", "rejected">>,
     <<"pending", "cancelled">>, <<"approved", "cancelled">>}

\* The caller may use update_leave on the leave.
MayUpdateLeave(u, l) ==
    u.role # "employee" \/ u.employee_id = Some(l.employee_id)

\* The step refused the request and changed no leave.
Refused == leaves' = leaves /\ resp'.status >= 400

\* The error of the step names the status of leave l.
NamesStatus(l) == resp'.status = 400 /\ resp'.body = <<l.status>>

C16_DecidedHasApprover ==
    \A l \in leaves :
       /\ l.status \in {"approved", "rejected"} => l.approved_by # Null
       /\ l.status = "pending" => l.approved_by = Null

\* C16, the steps: a new Leave has approved_by null; approved_by of a Leave
\* changes only in the approve or reject that decides it, to the id of the
\* user who performs it; and every successful approve or reject records that
\* user's id.
C16_ApproverRecorded ==
    /\ \A l2 \in leaves' :
          IF \E l \in leaves : l.id = l2.id
          THEN \A l \in leaves :
                  (l.id = l2.id /\ l.approved_by # l2.approved_by)
                  => \E u \in Users :
                        /\ l2.approved_by = Some(u.id)
                        /\ \/ approve_leave(u, l.id) /\ l2.status = "approved"
                           \/ reject_leave(u, l.id) /\ l2.status = "rejected"
          ELSE l2.approved_by = Null
    /\ resp'.op \in {"approve_leave", "reject_leave"} /\ resp'.status = 200
       => \A u \in Users, id \in LeaveIds :
             (approve_leave(u, id) \/ reject_leave(u, id))
             => \E l2 \in leaves' :
                   /\ l2.id = id
                   /\ l2.approved_by = Some(u.id)
                   /\ l2.status \in {"approved", "rejected"}

\* C16: every approved or rejected Leave has approved_by equal to the id of
\* the user who approved or rejected it, and a Leave never approved or
\* rejected has approved_by null.
C16_ApprovedBy == []C16_DecidedHasApprover /\ [][C16_ApproverRecorded]_vars

\* C16 witness: one leave approved by the admin and one rejected by the
\* manager.
C16_Witness ==
    \E l1 \in leaves, l2 \in leaves :
       /\ l1.status = "approved" /\ l1.approved_by = Some(1)
       /\ l2.status = "rejected" /\ l2.approved_by = Some(2)

\* C17: cancel_leave succeeds for a pending or approved leave when the caller
\* is the owning employee or an admin (an admin with no linked employee
\* included), and fails without changing the leave for every other caller.
C17_CancelByOwnerOrAdmin ==
    [][resp'.op = "cancel_leave" =>
       \A u \in Users, l \in leaves :
          (l.status \in {"pending", "approved"} /\ cancel_leave(u, l.id))
          => IF u.role = "admin" \/ u.employee_id = Some(l.employee_id)
             THEN /\ resp'.status = 200
                  /\ leaves' = (leaves \ {l})
                                  \cup {[l EXCEPT !.status = "cancelled"]}
             ELSE /\ resp'.status >= 400
                  /\ leaves' = leaves]_vars

\* C18: once a Leave's status is not pending, no step changes its start_date
\* or end_date, and update_leave on it fails and changes no leave.
C18_DatesFrozenOncePending ==
    [][/\ \A l \in leaves, l2 \in leaves' :
             (l2.id = l.id /\ l.status # "pending")
             => l2.start_date = l.start_date /\ l2.end_date = l.end_date
       /\ resp'.op = "update_leave"
          => \/ (resp'.status >= 400 /\ leaves' = leaves)
             \/ \A u \in Users, l \in leaves, leave_in \in LeaveUpdateInputs :
                   ~(l.status # "pending"
                       /\ update_leave(u, l.id, leave_in))]_vars

\* C18 witness: an update of an approved leave by its owner has just been
\* refused.
C18_Witness ==
    /\ resp.op = "update_leave"
    /\ resp.status = 400
    /\ resp.body = <<"approved">>

\* Two leaves that count for the conflict check and share a day.
ActiveOverlap(l1, l2) ==
    /\ l1.id # l2.id
    /\ l1.employee_id = l2.employee_id
    /\ l1.status \in {"pending", "approved"}
    /\ l2.status \in {"pending", "approved"}
    /\ DaysOf(l1.start_date, l1.end_date)
          \cap DaysOf(l2.start_date, l2.end_date) # {}

\* C19, the state: no two pending or approved leaves of one employee share a
\* day.
C19_NoOverlap == \A l1 \in leaves, l2 \in leaves : ~ActiveOverlap(l1, l2)

\* The range of the request shares a day with a pending or approved leave of
\* the employee.
CreateWouldOverlap(leave_in) ==
    \E l \in leaves :
       ActiveOverlap(l, [NewLeaveRow(leave_in) EXCEPT !.id = 0])

\* Nothing but a conflict can be wrong with the create request: it is valid,
\* for an employee on file, not before the hire date, and the caller may
\* create it.
CreateOtherwiseFine(u, leave_in) ==
    /\ ValidLeaveCreate(leave_in)
    /\ leave_in.employee_id \in DOMAIN employees
    /\ (employees[leave_in.employee_id].hire_date # Null
          => leave_in.start_date
                >= employees[leave_in.employee_id].hire_date[1])
    /\ (u.role = "employee" => u.employee_id = Some(leave_in.employee_id))

\* The update would give leave l a range that shares a day with another
\* pending or approved leave of the employee.
UpdateWouldOverlap(l, leave_in) ==
    \E other \in leaves :
       ActiveOverlap(other, crud_update_leave(l, leave_in))

\* The error of the step is the conflict error.
IsConflict == resp'.status = 400 /\ resp'.detail = "conflict"

\* C19, the steps: a create_leave or update_leave whose range would share a
\* day with another pending or approved leave of the employee fails and
\* writes nothing, with the conflict error when nothing else is wrong with
\* the request.
C19_ConflictRefused ==
    /\ resp'.op = "create_leave"
       => \A leave_in \in LeaveCreateInputs :
            CreateWouldOverlap(leave_in)
            => /\ Refused \/ \A u \in Users : ~create_leave(u, leave_in)
               /\ IsConflict
                    \/ \A u \in Users :
                          CreateOtherwiseFine(u, leave_in)
                          => ~create_leave(u, leave_in)
    /\ resp'.op = "update_leave"
       => \A l \in leaves, leave_in \in LeaveUpdateInputs :
            ( /\ l.status = "pending"
              /\ resp'.args = <<l.id>>
              /\ UpdateWouldOverlap(l, leave_in) )
            => /\ Refused \/ \A u \in Users : ~update_leave(u, l.id, leave_in)
               /\ IsConflict
                    \/ \A u \in Users :
                          (MayUpdateLeave(u, l) /\ ValidLeaveUpdate(leave_in))
                          => ~update_leave(u, l.id, leave_in)

\* C19: pending or approved leaves of one employee never overlap, and a create
\* or update that would make two overlap is refused and writes nothing.
C19_LeaveConflicts == []C19_NoOverlap /\ [][C19_ConflictRefused]_vars

\* C19 witness: an employee has two leaves that count, on different days, and
\* a request overlapping one of them has just been refused as a conflict.
C19_Witness ==
    /\ resp.op \in {"create_leave", "update_leave"}
    /\ resp.status = 400
    /\ resp.detail = "conflict"
    /\ \E l1 \in leaves, l2 \in leaves :
          /\ l1.id # l2.id
          /\ l1.employee_id = l2.employee_id
          /\ l1.status \in {"pending", "approved"}
          /\ l2.status \in {"pending", "approved"}

\* C20: two create_leave requests for the same employee with overlapping date
\* ranges whose conflict checks and inserts interleave never both insert a
\* pending Leave.
C20_NoRacingLeaveInserts ==
    ~ \E r1 \in 1..NumRequests, r2 \in 1..NumRequests :
         /\ r1 # r2
         /\ reqs[r1].pc = "done"
         /\ reqs[r2].pc = "done"
         /\ reqs[r1].leave_in[1].employee_id = reqs[r2].leave_in[1].employee_id
         /\ DaysOf(reqs[r1].leave_in[1].start_date,
                   reqs[r1].leave_in[1].end_date)
               \cap DaysOf(reqs[r2].leave_in[1].start_date,
                           reqs[r2].leave_in[1].end_date) # {}
         /\ reqs[r1].checked_at <= reqs[r2].row_id
         /\ reqs[r2].checked_at <= reqs[r1].row_id

\* ============================================================== departments
\* Bounds of the department analytics model.
NumDepartments == 3

NumStaff == 3

NumPositions == 2

DeptIds == 1..NumDepartments

\* Department ids a request may name: the last one never exists.
ReqDeptIds == 1..(NumDepartments + 1)

StaffIds == 1..NumStaff

PositionIds == 1..NumPositions

\* Department names, as sequences of characters.  create_department and
\* update_department refuse a name that is taken, so no two are equal.
DeptName(d) ==
    CASE d = 1 -> <<"H", "R">>
      [] d = 2 -> <<"h", "r", "d">>
      [] OTHER -> <<"I", "T">> \o [i \in 1..(d - 3) |-> "T"]

\* Employee.full_name: the first two employees are namesakes.
StaffName(e) == IF e <= 2 THEN "An" ELSE "Binh"

\* Employee.hire_date: the first employee was hired a day before the others.
StaffHireDate(e) == Some(IF e = 1 THEN 1 ELSE 2)

\* Employee.position_id: the last employee has no position.
StaffPosition(e) == IF e < NumStaff THEN Some(((e - 1) % NumPositions) + 1) ELSE Null

\* The open salary rows an employee may have on file: none, one, or two
\* (create_salary accepts a second open row that starts before the first).
OpenRowChoices == 0..2

StaffSalaryRows(e, k) ==
    LET row(i, amount) ==
          [id |-> 2 * (e - 1) + i, employee_id |-> e, base_salary |-> amount,
           effective_from |-> MaxDate + 1 - i, effective_to |-> Null]
    IN  CASE k = 0 -> {}
          [] k = 1 -> {row(1, 2)}
          [] OTHER -> {row(1, 2), row(2, 1)}

\* The store the analytics queries read: three departments, three employees
\* spread over them, each with none, one or two open salary rows.
DeptInit ==
    /\ departments = {[id |-> d, name |-> DeptName(d)] : d \in DeptIds}
    /\ \E dept \in [StaffIds -> DeptIds], k \in [StaffIds -> OpenRowChoices] :
          /\ employees =
               [e \in StaffIds |->
                  [hire_date |-> StaffHireDate(e),
                   department_id |-> Some(dept[e]),
                   position_id |-> StaffPosition(e),
                   full_name |-> StaffName(e), email |-> e]]
          /\ salaries = UNION {StaffSalaryRows(e, k[e]) : e \in StaffIds}
    /\ next_salary_id = 2 * NumStaff + 1
    /\ resp = Response("none", <<>>, 0, "none", <<>>, Null)
    /\ reqs = [r \in 1..NumRequests |-> IdleRequest]
    /\ attendances = {}
    /\ next_attendance_id = 1
    /\ leaves = {}
    /\ next_leave_id = 1
    /\ users = {}
    /\ next_employee_id = NumStaff + 1
    /\ next_user_id = 1

\* ------------------------------------------------ the aggregation queries
EmployeesIn(department_id) ==
    {e \in DOMAIN employees : employees[e].department_id = Some(department_id)}

\* departments LEFT JOIN employees LEFT JOIN open salaries, the rows of one
\* department that carry an employee: one row per open salary row of the
\* employee, and one row with a NULL salary for an employee without any.
JoinedRows(department_id) ==
    UNION {{<<e, Some(s)>> : s \in OpenSalariesOf(e)} :
             e \in EmployeesIn(department_id)}
      \cup {<<e, Null>> : e \in {x \in EmployeesIn(department_id) :
                                   OpenSalariesOf(x) = {}}}

SalaryRowsOfJoin(department_id) ==
    {j[2][1] : j \in {x \in JoinedRows(department_id) : x[2] # Null}}

RECURSIVE SumBaseSalary(_)
SumBaseSalary(rows) ==
    IF rows = {} THEN 0
    ELSE LET s == CHOOSE x \in rows : TRUE
         IN  s.base_salary + SumBaseSalary(rows \ {s})

\* A rational number as <<numerator, denominator>>, denominator >= 1.
Ratio(n, d) == <<n, d>>

RatioGt(a, b) == a[1] * b[2] > b[1] * a[2]

RatioEq(a, b) == a[1] * b[2] = b[1] * a[2]

\* func.count(Employee.id): the joined rows with an employee.
CountEmployeeId(department_id) == Cardinality(JoinedRows(department_id))

\* func.avg(Salary.base_salary): NULL when the group has no salary row.
AvgBaseSalary(department_id) ==
    LET rows == SalaryRowsOfJoin(department_id)
    IN  IF rows = {} THEN Null
        ELSE Some(Ratio(SumBaseSalary(rows), Cardinality(rows)))

\* func.coalesce(x, 0)
Coalesce0(x) == IF x = Null THEN Ratio(0, 1) ELSE x[1]

\* func.count(func.distinct(Employee.position_id))
CountDistinctPositions(department_id) ==
    Cardinality({employees[e].position_id[1] :
                   e \in {x \in EmployeesIn(department_id) :
                            employees[x].position_id # Null}})

\* One row of stats_query, as the dict of dept_data.
DeptStatsRow(dept) ==
    [department_id |-> dept.id,
     department_name |-> dept.name,
     total_employees |-> CountEmployeeId(dept.id),
     total_salary_budget |-> SumBaseSalary(SalaryRowsOfJoin(dept.id)),
     avg_salary |-> Coalesce0(AvgBaseSalary(dept.id)),
     unique_positions |-> CountDistinctPositions(dept.id)]

\* sorted(..., reverse=True) is stable: an element goes before the first
\* element with a strictly smaller key, after the ones with an equal key.
RECURSIVE InsertDesc(_, _)
InsertDesc(sorted, x) ==
    IF sorted = <<>> THEN <<x>>
    ELSE IF RatioGt(x.key, Head(sorted).key) THEN <<x>> \o sorted
    ELSE <<Head(sorted)>> \o InsertDesc(Tail(sorted), x)

RECURSIVE SortedDescFrom(_, _)
SortedDescFrom(sorted, rest) ==
    IF rest = <<>> THEN sorted
    ELSE SortedDescFrom(InsertDesc(sorted, Head(rest)), Tail(rest))

\* sorted(dept_data, key=..., reverse=True), as indexes into dept_data.
SortedDesc(keys) ==
    SortedDescFrom(<<>>, [i \in 1..Len(keys) |-> [idx |-> i, key |-> keys[i]]])

\* enumerate(sorted, 1): the rank of the element at index i of dept_data.
RankOf(sorted, i) == CHOOSE r \in 1..Len(sorted) : sorted[r].idx = i

\* A variant of max that keeps the last element with the greatest key.
RECURSIVE MaxLastFrom(_, _, _)
MaxLastFrom(keys, best, i) ==
    IF i > Len(keys) THEN best
    ELSE IF RatioGt(keys[best], keys[i]) THEN MaxLastFrom(keys, best, i + 1)
    ELSE MaxLastFrom(keys, i, i + 1)

MaxIndexLast(keys) == MaxLastFrom(keys, 1, 2)

\* max(dept_data, key=...): the first element with the greatest key.
RECURSIVE MaxFrom(_, _, _)
MaxFrom(keys, best, i) ==
    IF i > Len(keys) THEN best
    ELSE IF RatioGt(keys[i], keys[best]) THEN MaxFrom(keys, i, i + 1)
    ELSE MaxFrom(keys, best, i + 1)

MaxIndex(keys) == MaxFrom(keys, 1, 2)

\* The orders in which stats_query may deliver its rows: the query has a
\* GROUP BY and no ORDER BY, so any order of the selected departments.
RowOrders(department_ids) ==
    LET selected == {d \in departments :
                       \E i \in 1..Len(department_ids) : department_ids[i] = d.id}
        n == Cardinality(selected)
    IN  {o \in [1..n -> selected] : \A i, j \in 1..n : o[i] = o[j] => i = j}

\* CRUDDepartment.compare_departments, for one delivery order of the rows.
crud_compare_departments(rows) ==
    LET dept_data == [i \in 1..Len(rows) |-> DeptStatsRow(rows[i])]
        size_keys == [i \in 1..Len(rows) |->
                        Ratio(dept_data[i].total_employees, 1)]
        salary_keys == [i \in 1..Len(rows) |-> dept_data[i].avg_salary]
        position_keys == [i \in 1..Len(rows) |->
                            Ratio(dept_data[i].unique_positions, 1)]
        sorted_by_size == SortedDesc(size_keys)
        sorted_by_salary == SortedDesc(salary_keys)
    IN  [comparison |->
           [i \in 1..Len(rows) |->
              [department_id |-> dept_data[i].department_id,
               department_name |-> dept_data[i].department_name,
               total_employees |-> dept_data[i].total_employees,
               total_salary_budget |-> dept_data[i].total_salary_budget,
               avg_salary |-> dept_data[i].avg_salary,
               unique_positions |-> dept_data[i].unique_positions,
               rank_by_size |-> RankOf(sorted_by_size, i),
               rank_by_salary |-> RankOf(sorted_by_salary, i)]],
         summary |->
           IF rows = <<>> THEN Null
           ELSE Some([largest_department |->
                        dept_data[MaxIndex(size_keys)].department_name,
                      highest_paid_department |->
                        dept_data[MaxIndex(salary_keys)].department_name,
                      most_diverse_positions |->
                        dept_data[MaxIndex(position_keys)].department_name])]

\* The request bodies of POST /departments/compare: lists of department ids.
CompareInputs ==
    UNION {[1..n -> ReqDeptIds] : n \in 0..NumDepartments}

\* POST /departments/compare
compare_departments(department_ids) ==
    IF department_ids = <<>>
    THEN Raise("compare_departments", <<department_ids>>, 400, "empty")
    ELSE \E rows \in RowOrders(department_ids) :
           LET result == crud_compare_departments(rows)
           IN  IF result.comparison = <<>>
               THEN Raise("compare_departments", <<department_ids>>, 404,
                          "not_found")
               ELSE /\ resp' = Response("compare_departments",
                                        <<department_ids>>, 200, "ok",
                                        result, Null)
                    /\ UNCHANGED <<employees, salaries, next_salary_id, reqs,
                                   hr>>

\* No request has been answered yet.
Unanswered == resp.op = "none"

\* The comparison reads the store and writes nothing, so a later request
\* meets the store of the first: each behaviour serves one request.
CompareNext ==
    /\ Unanswered
    /\ \E department_ids \in CompareInputs : compare_departments(department_ids)

SpecCompare == DeptInit /\ [][CompareNext]_vars

\* ---------------------------------------------------------------- C21, C22
\* The position of a department id in the request's list.
InputPos(department_ids, id) ==
    CHOOSE i \in 1..Len(department_ids) : department_ids[i] = id

\* A comparison of N existing departments, each named once.
ComparedDistinct ==
    /\ resp.op = "compare_departments"
    /\ resp.status = 200
    /\ \A i, j \in 1..Len(resp.args[1]) :
         resp.args[1][i] = resp.args[1][j] => i = j
    /\ \A i \in 1..Len(resp.args[1]) : resp.args[1][i] \in DeptIds

\* The average open salary of a department, 0 when it has no open row.
AvgOpenSalary(department_id) ==
    LET rows == UNION {OpenSalariesOf(e) : e \in EmployeesIn(department_id)}
    IN  IF rows = {} THEN Ratio(0, 1)
        ELSE Ratio(SumBaseSalary(rows), Cardinality(rows))

\* C21: compare_departments over N existing departments assigns rank_by_size
\* and rank_by_salary each as a permutation of 1..N; a department with
\* strictly more employees (resp. a strictly higher average open salary) gets
\* the smaller rank, and departments with equal values are ranked in the
\* order of their ids in the input list.
C21_RanksFollowInputOrder ==
    ComparedDistinct =>
      LET ids == resp.args[1]
          c == resp.body.comparison
          N == Len(ids)
          size(i) == Cardinality(EmployeesIn(c[i].department_id))
          avg(i) == AvgOpenSalary(c[i].department_id)
          before(i, j) == InputPos(ids, c[i].department_id)
                             < InputPos(ids, c[j].department_id)
      IN  /\ Len(c) = N
          /\ {c[i].rank_by_size : i \in 1..N} = 1..N
          /\ {c[i].rank_by_salary : i \in 1..N} = 1..N
          /\ \A i, j \in 1..N :
               /\ size(i) > size(j) => c[i].rank_by_size < c[j].rank_by_size
               /\ (size(i) = size(j) /\ before(i, j))
                     => c[i].rank_by_size < c[j].rank_by_size
               /\ RatioGt(avg(i), avg(j))
                     => c[i].rank_by_salary < c[j].rank_by_salary
               /\ (RatioEq(avg(i), avg(j)) /\ before(i, j))
                     => c[i].rank_by_salary < c[j].rank_by_salary

\* C22: in every compare_departments result, summary.largest_department is
\* the department with rank_by_size = 1 and summary.highest_paid_department
\* the one with rank_by_salary = 1, ties on employee count or average salary
\* included.
C22_SummaryNamesRankOne ==
    (resp.op = "compare_departments" /\ resp.status = 200) =>
      LET c == resp.body.comparison
          summary == resp.body.summary[1]
      IN  /\ resp.body.summary # Null
          /\ \A i \in 1..Len(c) :
               /\ c[i].rank_by_size = 1
                    <=> c[i].department_name = summary.largest_department
               /\ c[i].rank_by_salary = 1
                    <=> c[i].department_name = summary.highest_paid_department

\* Three departments compared, tied for the greatest employee count and for
\* the greatest average salary, the two ranks led by different departments.
C22_Witness ==
    /\ resp.op = "compare_departments"
    /\ resp.status = 200
    /\ LET c == resp.body.comparison
       IN  /\ Len(c) = 3
           /\ \E i, j \in 1..3 :
                /\ i # j
                /\ c[i].total_employees = c[j].total_employees
                /\ \A k \in 1..3 : c[k].total_employees <= c[i].total_employees
                /\ c[j].rank_by_size = 1
           /\ \E i, j \in 1..3 :
                /\ i # j
                /\ RatioEq(c[i].avg_salary, c[j].avg_salary)
                /\ c[i].avg_salary[1] > 0
                /\ \A k \in 1..3 : ~RatioGt(c[k].avg_salary, c[i].avg_salary)
                /\ c[i].rank_by_salary = 1
           /\ resp.body.summary[1].largest_department
                 # resp.body.summary[1].highest_paid_department

\* ------------------------------------------------------ search_departments
\* Bound on the number of filters one search request sets.
MaxFiltersSet == 2

\* str.lower() over the letters of the department names.
Lower(ch) ==
    CASE ch = "H" -> "h"
      [] ch = "R" -> "r"
      [] ch = "I" -> "i"
      [] ch = "T" -> "t"
      [] ch = "D" -> "d"
      [] OTHER -> ch

LowerAll(str) == [i \in 1..Len(str) |-> Lower(str[i])]

\* name ILIKE '%pattern%'
ILikeContains(name, pattern) ==
    \E k \in 0..(Len(name) - Len(pattern)) :
       \A i \in 1..Len(pattern) : Lower(name[k + i]) = Lower(pattern[i])

\* The code point of a letter, for ORDER BY name.
CharCode(ch) ==
    CASE ch = "H" -> 72
      [] ch = "I" -> 73
      [] ch = "R" -> 82
      [] ch = "T" -> 84
      [] ch = "d" -> 100
      [] ch = "h" -> 104
      [] ch = "r" -> 114
      [] OTHER -> 0

RECURSIVE NameLess(_, _)
NameLess(a, b) ==
    IF b = <<>> THEN FALSE
    ELSE IF a = <<>> THEN TRUE
    ELSE IF CharCode(Head(a)) # CharCode(Head(b))
         THEN CharCode(Head(a)) < CharCode(Head(b))
    ELSE NameLess(Tail(a), Tail(b))

\* round(float(avg_sal), 2), as a number of hundredths over 100.
Round2(r) == Ratio((200 * r[1] + r[2]) \div (2 * r[2]), 100)

NamePatterns == {<<"h", "r">>, <<"R", "D">>, <<"x">>}

CountThresholds == 1..2

AvgThresholds == {0, 2}

SortFields == {"name", "employee_count", "avg_salary"}

SortOrders == {"asc", "desc"}

OptOf(S) == {Null} \cup {Some(x) : x \in S}

\* The query parameters of GET /departments/search.  limit keeps its
\* default, which is above the number of departments.
SearchInputs ==
    {q \in [name : OptOf(NamePatterns),
            min_employees : OptOf(CountThresholds),
            max_employees : OptOf(CountThresholds),
            min_avg_salary : OptOf(AvgThresholds),
            max_avg_salary : OptOf(AvgThresholds),
            sort_by : SortFields, order : SortOrders, skip : 0..1] :
       Cardinality({f \in {"name", "min_employees", "max_employees",
                           "min_avg_salary", "max_avg_salary"} :
                      q[f] # Null}) <= MaxFiltersSet}

\* A comparison with SQL NULL is not true.
SqlGe(x, bound) == x # Null /\ ~RatioGt(Ratio(bound, 1), x[1])

SqlLe(x, bound) == x # Null /\ ~RatioGt(x[1], Ratio(bound, 1))

\* The WHERE and HAVING clauses of lines 139-163.
SearchMatches(dept, q) ==
    /\ (q.name # Null /\ q.name[1] # <<>>)
          => ILikeContains(dept.name, q.name[1])
    /\ q.min_employees # Null
          => CountEmployeeId(dept.id) >= q.min_employees[1]
    /\ q.max_employees # Null
          => CountEmployeeId(dept.id) <= q.max_employees[1]
    /\ q.min_avg_salary # Null
          => SqlGe(AvgBaseSalary(dept.id), q.min_avg_salary[1])
    /\ q.max_avg_salary # Null
          => SqlLe(AvgBaseSalary(dept.id), q.max_avg_salary[1])

\* ORDER BY sort_column ASC: a must come before b.  A NULL average sorts
\* above every number.
SortsBefore(a, b, sort_by) ==
    LET avgkey(d) == IF AvgBaseSalary(d.id) = Null THEN Ratio(1, 0)
                     ELSE AvgBaseSalary(d.id)[1]
    IN  CASE sort_by = "employee_count" ->
               CountEmployeeId(a.id) < CountEmployeeId(b.id)
          [] sort_by = "avg_salary" -> RatioGt(avgkey(b), avgkey(a))
          [] OTHER -> NameLess(a.name, b.name)

\* The orders in which the query may deliver the matching departments.
SearchOrders(q) ==
    LET matching == {d \in departments : SearchMatches(d, q)}
        n == Cardinality(matching)
    IN  {o \in [1..n -> matching] :
           /\ \A i, j \in 1..n : o[i] = o[j] => i = j
           /\ \A i, j \in 1..n :
                i < j => IF q.order = "desc"
                         THEN ~SortsBefore(o[i], o[j], q.sort_by)
                         ELSE ~SortsBefore(o[j], o[i], q.sort_by)}

\* The default of the limit parameter.
DefaultLimit == 100

\* query.offset(skip).limit(limit)
OffsetLimit(rows, skip, limit) ==
    LET last == IF skip + limit < Len(rows) THEN skip + limit ELSE Len(rows)
    IN  [i \in 1..(IF last > skip THEN last - skip ELSE 0) |-> rows[skip + i]]

\* The dict the search returns for one department.
SearchRow(dept) ==
    [id |-> dept.id,
     name |-> dept.name,
     employee_count |-> CountEmployeeId(dept.id),
     avg_salary |-> Round2(Coalesce0(AvgBaseSalary(dept.id)))]

\* GET /departments/search with CRUDDepartment.search_departments
search_departments(q) ==
    \E o \in SearchOrders(q) :
       LET page == OffsetLimit(o, q.skip, DefaultLimit)
       IN  /\ resp' = Response("search_departments", <<q>>, 200, "ok",
                               [i \in 1..Len(page) |-> SearchRow(page[i])],
                               Null)
           /\ UNCHANGED <<employees, salaries, next_salary_id, reqs, hr>>

SearchNext ==
    /\ Unanswered
    /\ \E q \in SearchInputs : search_departments(q)

SpecSearch == DeptInit /\ [][SearchNext]_vars

\* --------------------------------------------------------------------- C23
\* The value a department reports for a threshold lies within the bounds.
Within(value, min, max) ==
    /\ min # Null => ~RatioGt(Ratio(min[1], 1), value)
    /\ max # Null => ~RatioGt(value, Ratio(max[1], 1))

\* C23: department_search with skip = 0 and a limit above the number of
\* departments returns exactly the departments whose name contains the
\* filter case-insensitively and whose reported employee_count and reported
\* avg_salary lie within the thresholds; employee_count is the number of
\* employees of the department, and a department with no open salary
\* reports avg_salary 0.
C23_SearchReturnsMatches ==
    (resp.op = "search_departments" /\ resp.args[1].skip = 0) =>
      LET q == resp.args[1]
          returned == {resp.body[i].id : i \in 1..Len(resp.body)}
          expected ==
            {d \in departments :
               /\ q.name # Null =>
                    \E k \in 0..(Len(d.name) - Len(q.name[1])) :
                       SubSeq(LowerAll(d.name), k + 1, k + Len(q.name[1]))
                          = LowerAll(q.name[1])
               /\ Within(Ratio(SearchRow(d).employee_count, 1),
                         q.min_employees, q.max_employees)
               /\ Within(SearchRow(d).avg_salary,
                         q.min_avg_salary, q.max_avg_salary)}
      IN  /\ returned = {d.id : d \in expected}
          /\ \A i \in 1..Len(resp.body) :
               /\ resp.body[i].employee_count
                     = Cardinality(EmployeesIn(resp.body[i].id))
               /\ (\A e \in EmployeesIn(resp.body[i].id) :
                      OpenSalariesOf(e) = {})
                     => resp.body[i].avg_salary[1] = 0

\* ------------------------------------------------- get_department_employees
\* Bound on page_size.
MaxPageSize == 2

PageSizes == 1..MaxPageSize

EmployeeSortFields == {"name", "hire_date", "salary"}

\* The query parameters of GET /departments/{department_id}/employees, the
\* page number apart.
PageQueries ==
    [page_size : PageSizes, sort_by : EmployeeSortFields, order : SortOrders,
     position_id : OptOf(PositionIds)]

\* employees LEFT JOIN open salaries, filtered by department and position:
\* one row per open salary row of an employee, one row with a NULL salary
\* for an employee without any.
EmployeeRows(department_id, position_id) ==
    {j \in JoinedRows(department_id) :
       position_id # Null => employees[j[1]].position_id = position_id}

\* ORDER BY sort_column ASC: row a must come before row b.  A NULL salary
\* sorts above every amount.
EmployeeSortsBefore(a, b, sort_by) ==
    LET amount(j) == IF j[2] = Null THEN MaxAmount + 1 ELSE j[2][1].base_salary
    IN  CASE sort_by = "hire_date" ->
               employees[a[1]].hire_date[1] < employees[b[1]].hire_date[1]
          [] sort_by = "salary" -> amount(a) < amount(b)
          [] OTHER -> employees[a[1]].full_name = "An"
                         /\ employees[b[1]].full_name = "Binh"

\* The orders consistent with ORDER BY in which rows can be delivered: the
\* next row is any row that no remaining row has to precede.
RECURSIVE OrdersOf(_, _, _)
OrdersOf(rows, sort_by, order) ==
    IF rows = {} THEN {<<>>}
    ELSE LET first(a, b) == IF order = "desc"
                            THEN EmployeeSortsBefore(b, a, sort_by)
                            ELSE EmployeeSortsBefore(a, b, sort_by)
         IN  UNION {{<<x>> \o o : o \in OrdersOf(rows \ {x}, sort_by, order)} :
                      x \in {y \in rows : \A z \in rows : ~first(z, y)}}

\* The orders in which one execution of the query may deliver its rows: any
\* order consistent with ORDER BY, rows with equal sort keys in any order.
EmployeeOrders(department_id, q) ==
    OrdersOf(EmployeeRows(department_id, q.position_id), q.sort_by, q.order)

\* math.ceil(total_count / page_size)
CeilDiv(a, b) == (a + b - 1) \div b

\* One employee of the page.
EmployeeEntry(j) ==
    [id |-> j[1],
     name |-> employees[j[1]].full_name,
     current_salary |-> IF j[2] = Null THEN 0 ELSE j[2][1].base_salary]

\* CRUDDepartment.get_department_employees, for the delivery order of the
\* page query; total_count counts the rows of the same query.
crud_get_department_employees(department_id, page, q, o) ==
    LET offset == (page - 1) * q.page_size
        total_count == Cardinality(EmployeeRows(department_id, q.position_id))
        results == OffsetLimit(o, offset, q.page_size)
    IN  [department_id |-> department_id,
         pagination |->
           [page |-> page, page_size |-> q.page_size,
            total_records |-> total_count,
            total_pages |-> IF q.page_size > 0
                            THEN CeilDiv(total_count, q.page_size) ELSE 0],
         employees |-> [i \in 1..Len(results) |-> EmployeeEntry(results[i])]]

\* What a client that reads the pages of one query in turn has seen so far.
Reading(department_id, q, page, seen) ==
    [pc |-> "reading", department_id |-> department_id, query |-> q,
     next_page |-> page, seen |-> seen]

\* GET /departments/{department_id}/employees, asked by client r, who notes
\* the employees of the page.
get_department_employees(r, department_id, page, q) ==
    IF ~\E d \in departments : d.id = department_id
    THEN /\ resp' = Response("get_department_employees",
                             <<department_id, page, q>>, 404, "not_found",
                             <<>>, Null)
         /\ reqs' = [reqs EXCEPT ![r] = Reading(department_id, q, page, <<>>)]
         /\ UNCHANGED <<employees, salaries, next_salary_id, hr>>
    ELSE \E o \in EmployeeOrders(department_id, q) :
           LET result == crud_get_department_employees(department_id, page, q, o)
           IN  /\ resp' = Response("get_department_employees",
                                   <<department_id, page, q>>, 200, "ok",
                                   result, Null)
               /\ reqs' = [reqs EXCEPT ![r] =
                             Reading(department_id, q, page + 1,
                                     (IF reqs[r].pc = "reading"
                                      THEN reqs[r].seen ELSE <<>>)
                                        \o result.employees)]
               /\ UNCHANGED <<employees, salaries, next_salary_id, hr>>

\* A client reads page 1, then the following pages of the same query up to
\* total_pages; nothing writes to the store in between.
PagesNext ==
    \/ /\ reqs[1].pc = "idle"
       /\ \E department_id \in ReqDeptIds, q \in PageQueries :
             get_department_employees(1, department_id, 1, q)
    \/ /\ reqs[1].pc = "reading"
       /\ resp.status = 200
       /\ reqs[1].next_page <= resp.body.pagination.total_pages
       /\ get_department_employees(1, reqs[1].department_id,
                                   reqs[1].next_page, reqs[1].query)

SpecPages == DeptInit /\ [][PagesNext]_vars

\* --------------------------------------------------------------------- C24
\* The employees of a department that match the position filter.
MatchingEmployees(department_id, position_id) ==
    {e \in EmployeesIn(department_id) :
       position_id # Null => employees[e].position_id = position_id}

\* C24: for paginated_department_employees with page_size >= 1,
\* total_records is the number of employees of the department matching the
\* position filter, total_pages is ceil(total_records / page_size), and
\* reading pages 1..total_pages without intervening writes yields each
\* matching employee exactly once, annotated with the amount of their open
\* salary row, or 0 when they have none.
C24_PagesCoverEachEmployeeOnce ==
    (resp.op = "get_department_employees" /\ resp.status = 200) =>
      LET q == reqs[1].query
          pg == resp.body.pagination
          matching == MatchingEmployees(reqs[1].department_id, q.position_id)
          seen == reqs[1].seen
      IN  /\ pg.total_records = Cardinality(matching)
          /\ pg.total_pages = CeilDiv(pg.total_records, q.page_size)
          /\ reqs[1].next_page > pg.total_pages =>
               /\ \A e \in matching :
                    Cardinality({i \in 1..Len(seen) : seen[i].id = e}) = 1
               /\ \A i \in 1..Len(seen) :
                    /\ seen[i].id \in matching
                    /\ IF OpenSalariesOf(seen[i].id) = {}
                       THEN seen[i].current_salary = 0
                       ELSE \E s \in OpenSalariesOf(seen[i].id) :
                               seen[i].current_salary = s.base_salary

\* ================================================================ dashboard
\* The store the dashboard reads: two or three employees; up to two leaves
\* of any status, up to two attendance rows of today or yesterday, up to two
\* salary rows, open or closed; one department; the user accounts.
StatsInit ==
    /\ \E n \in 2..NumStaff :
          employees = [e \in 1..n |->
                         [hire_date |-> Some(1), department_id |-> Some(1),
                          position_id |-> Null, full_name |-> StaffName(e),
                          email |-> e]]
    /\ \E st \in [LeaveIds -> OptOf(LeaveStatuses)] :
          leaves = {[id |-> i, employee_id |-> 1, start_date |-> i,
                     end_date |-> MaxLeaveDate, status |-> st[i][1],
                     approved_by |-> IF st[i][1] \in {"approved", "rejected"}
                                     THEN Some(1) ELSE Null] :
                      i \in {x \in LeaveIds : st[x] # Null}}
    /\ \E at \in [AttendanceIds ->
                    OptOf({Today - 1, Today} \X AttendanceStatuses)] :
          attendances = {[id |-> i, employee_id |-> i, date |-> at[i][1][1],
                          check_in_time |-> Null, check_out_time |-> Null,
                          status |-> at[i][1][2]] :
                           i \in {x \in AttendanceIds : at[x] # Null}}
    /\ \E sa \in [1..MaxSalaryRows -> OptOf(Amounts \X {Null, Some(Today)})] :
          salaries = {[id |-> i, employee_id |-> 1, base_salary |-> sa[i][1][1],
                       effective_from |-> 1, effective_to |-> sa[i][1][2]] :
                        i \in {x \in 1..MaxSalaryRows : sa[x] # Null}}
    /\ departments = {[id |-> 1, name |-> DeptName(1)]}
    /\ users = Users
    /\ next_salary_id = MaxSalaryRows + 1
    /\ next_attendance_id = MaxAttendanceRows + 1
    /\ next_leave_id = MaxLeaveRows + 1
    /\ next_employee_id = NumStaff + 1
    /\ next_user_id = Cardinality(Users) + 1
    /\ resp = Response("none", <<>>, 0, "none", <<>>, Null)
    /\ reqs = [r \in 1..NumRequests |-> IdleRequest]

\* func.sum(Salary.base_salary) ... .filter(Salary.effective_to == None);
\* "total or 0" turns the NULL of an empty table into 0.
OpenPayroll == SumBaseSalary({s \in salaries : s.effective_to = Null})

\* A variant of the payroll query without the effective_to filter.
AllRowsPayroll == SumBaseSalary(salaries)

TotalPayroll == OpenPayroll

\* SELECT status, COUNT(*) ... WHERE date = today GROUP BY status, as the
\* dict attendance_dict; attendance_dict.get(status, 0).
AttendanceTodayCount(status) ==
    Cardinality({a \in attendances : a.date = Today /\ a.status = status})

\* CRUDStatistics.get_dashboard_metrics.  The figures that depend on the
\* calendar month and the department and position extremes are left out.
crud_get_dashboard_metrics ==
    LET open == {s \in salaries : s.effective_to = Null}
        on_leave_today ==
          Cardinality({l \in leaves : /\ l.status = "approved"
                                       /\ l.start_date <= Today
                                       /\ l.end_date >= Today})
    IN  [employees |->
           [total |-> Cardinality(DOMAIN employees),
            active |-> Cardinality(DOMAIN employees),
            on_leave_today |-> on_leave_today],
         departments |-> [total |-> Cardinality(departments)],
         attendance_today |->
           [date |-> Today,
            present |-> AttendanceTodayCount("present"),
            late |-> AttendanceTodayCount("late"),
            absent |-> AttendanceTodayCount("absent"),
            on_leave |-> on_leave_today],
         leaves |->
           [pending_requests |->
              Cardinality({l \in leaves : l.status = "pending"})],
         salaries |->
           [total_payroll |-> Round2(Ratio(TotalPayroll, 1)),
            average_salary |->
              Round2(IF open = {} THEN Ratio(0, 1)
                     ELSE Ratio(SumBaseSalary(open), Cardinality(open)))],
         users |->
           [total |-> Cardinality(users),
            admins |-> Cardinality({u \in users : u.role = "admin"}),
            managers |-> Cardinality({u \in users : u.role = "manager"}),
            employees |-> Cardinality({u \in users : u.role = "employee"})]]

\* GET /statistics/dashboard
get_dashboard_statistics ==
    /\ resp' = Response("get_dashboard_statistics", <<>>, 200, "ok",
                        crud_get_dashboard_metrics, Null)
    /\ UNCHANGED <<employees, salaries, next_salary_id, reqs, hr>>

StatsNext == Unanswered /\ get_dashboard_statistics

SpecStats == StatsInit /\ [][StatsNext]_vars

AccessInit ==
    /\ \E S \in {{1}, LeaveEmpIds} :
          /\ employees = [e \in S |->
                            [hire_date |-> Some(e), department_id |-> Some(1),
                             position_id |-> Null, full_name |-> StaffName(e),
                             email |-> e]]
          /\ \E days \in [S -> SUBSET {Today - 1, Today}] :
                attendances =
                  UNION {{[id |-> 2 * (e - 1) + d - Today + 2,
                           employee_id |-> e, date |-> d,
                           check_in_time |-> Some(1), check_out_time |-> Null,
                           status |-> "present"] : d \in days[e]} : e \in S}
          /\ \E paid \in SUBSET S :
                salaries = {[id |-> e, employee_id |-> e, base_salary |-> 1,
                             effective_from |-> MaxDate, effective_to |-> Null] :
                              e \in paid}
    /\ next_salary_id = NumLeaveEmployees + 1
    /\ next_attendance_id = 2 * NumLeaveEmployees + 1
    /\ leaves = {}
    /\ next_leave_id = 1
    /\ departments = {[id |-> 1, name |-> DeptName(1)]}
    /\ users = {u \in Users : u.employee_id = Null
                                  \/ u.employee_id[1] \in DOMAIN employees}
    /\ next_employee_id = NumLeaveEmployees + 1
    /\ next_user_id = Cardinality(Users) + 1
    /\ resp = Response("none", <<>>, 0, "none", <<>>, Null)
    /\ reqs = [r \in 1..NumRequests |-> IdleRequest]

\* PermissionDependencies.can_read_attendance: admin and manager.
can_read_attendance(current_user) == current_user.role \in {"admin", "manager"}

\* crud_salary.get_by_employee: the employee's rows.
crud_salary_get_by_employee(employee_id) ==
    SortRowsById(SalariesOf(employee_id))

\* crud_attendance.get_by_employee: the employee's rows within the dates.
crud_attendance_get_by_employee(employee_id, start_date, end_date) ==
    SortRowsById({a \in attendances :
                    /\ a.employee_id = employee_id
                    /\ start_date # Null => a.date >= start_date[1]
                    /\ end_date # Null => a.date <= end_date[1]})

\* crud_attendance.get_by_date: every row of the day.
crud_attendance_get_by_date(attendance_date) ==
    SortRowsById({a \in attendances : a.date = attendance_date})

\* crud_attendance.get_monthly_report: the employee's rows of the month; all
\* the days of the model lie in the month asked for.
crud_attendance_get_monthly_report(employee_id) ==
    SortRowsById({a \in attendances : a.employee_id = employee_id})

\* A successful read: the rows go to the caller, the store stays as it is.
Reply(op, args, body) ==
    /\ resp' = Response(op, args, 200, "ok", body, Null)
    /\ UNCHANGED <<employees, salaries, next_salary_id, reqs, hr>>

\* GET /salaries/employee/{employee_id}
get_employee_salaries(current_user, employee_id) ==
    LET args == <<current_user.id, employee_id>> IN
    IF employee_id \notin DOMAIN employees
    THEN Raise("get_employee_salaries", args, 404, "employee")
    ELSE IF ~check_resource_ownership(current_user, employee_id)
    THEN Raise("get_employee_salaries", args, 403, "forbidden")
    ELSE Reply("get_employee_salaries", args,
               crud_salary_get_by_employee(employee_id))

\* GET /attendances/employee/{employee_id}
get_employee_attendances(current_user, employee_id, start_date, end_date) ==
    LET args == <<current_user.id, employee_id, start_date, end_date>> IN
    IF ~check_resource_ownership(current_user, employee_id)
    THEN Raise("get_employee_attendances", args, 403, "forbidden")
    ELSE IF employee_id \notin DOMAIN employees
    THEN Raise("get_employee_attendances", args, 404, "employee")
    ELSE Reply("get_employee_attendances", args,
               crud_attendance_get_by_employee(employee_id, start_date,
                                               end_date))

\* GET /attendances/date/{attendance_date}
get_attendances_by_date(current_user, attendance_date) ==
    Reply("get_attendances_by_date", <<current_user.id, attendance_date>>,
          crud_attendance_get_by_date(attendance_date))

\* GET /attendances/report/monthly/{employee_id}
get_monthly_report(current_user, employee_id) ==
    LET args == <<current_user.id, employee_id>> IN
    IF employee_id \notin DOMAIN employees
    THEN Raise("get_monthly_report", args, 404, "employee")
    ELSE Reply("get_monthly_report", args,
               crud_attendance_get_monthly_report(employee_id))

\* GET /attendances/my-attendances
get_my_attendances(current_user, start_date, end_date) ==
    LET args == <<current_user.id, start_date, end_date>> IN
    IF current_user.employee_id = Null
    THEN Raise("get_my_attendances", args, 404, "no_employee_id")
    ELSE IF current_user.employee_id[1] \notin DOMAIN employees
    THEN Raise("get_my_attendances", args, 404, "employee")
    ELSE Reply("get_my_attendances", args,
               crud_attendance_get_by_employee(current_user.employee_id[1],
                                               start_date, end_date))

\* GET /attendances/
list_all_attendances(current_user, employee_id, start_date, end_date) ==
    LET args == <<current_user.id, employee_id, start_date, end_date>> IN
    IF ~can_read_attendance(current_user)
    THEN Raise("list_all_attendances", args, 403, "forbidden")
    ELSE IF employee_id # Null
    THEN Reply("list_all_attendances", args,
               crud_attendance_get_by_employee(employee_id[1], start_date,
                                               end_date))
    ELSE Reply("list_all_attendances", args,
               SortRowsById({a \in attendances :
                               /\ start_date # Null => a.date >= start_date[1]
                               /\ end_date # Null => a.date <= end_date[1]}))

\* The date filters a read request may carry.
DateFilters == {Null, Some(Today)}

\* The self-service endpoints, one request per behaviour: the reads write
\* nothing, and create_leave is asked once.
AccessNext ==
    /\ Unanswered
    /\ \/ \E u \in users, e \in ReqLeaveEmpIds : get_employee_salaries(u, e)
       \/ \E u \in users, e \in ReqLeaveEmpIds, d \in Dates :
             get_current_salary(u, e, Some(d))
       \/ \E u \in users, e \in ReqLeaveEmpIds, from \in DateFilters,
             to \in DateFilters : get_employee_attendances(u, e, from, to)
       \/ \E u \in users, d \in {Today - 1, Today} :
             get_attendances_by_date(u, d)
       \/ \E u \in users, e \in ReqLeaveEmpIds : get_monthly_report(u, e)
       \/ \E u \in users, from \in DateFilters, to \in DateFilters :
             get_my_attendances(u, from, to)
       \/ \E u \in users, e \in OptOf(ReqLeaveEmpIds), from \in DateFilters,
             to \in DateFilters : list_all_attendances(u, e, from, to)
       \/ \E u \in users, leave_in \in LeaveCreateInputs : create_leave(u, leave_in)

SpecAccess == AccessInit /\ [][AccessNext]_vars

\* --------------------------------------------------------------------- C26
\* The user accounts of role employee.
EmployeeUsers == {u \in users : u.role = "employee"}

\* C26: for a caller of role employee who asks for the salary, attendance
\* or leave data of an employee id other than their own, or creates a leave
\* for it, the answer is the same permission-denied outcome whether or not
\* that employee id exists.
C26_DenialHidesExistence ==
    [][\A u \in EmployeeUsers, e \in ReqLeaveEmpIds :
          (/\ u.employee_id # Some(e)
           /\ \/ get_employee_salaries(u, e)
              \/ \E d \in Dates : get_current_salary(u, e, Some(d))
              \/ \E from \in DateFilters, to \in DateFilters :
                    get_employee_attendances(u, e, from, to)
              \/ \E leave_in \in LeaveCreateInputs :
                    /\ leave_in.employee_id = e
                    /\ ValidLeaveCreate(leave_in)
                    /\ create_leave(u, leave_in))
            => (resp'.status = 403 /\ resp'.detail = "forbidden")]_vars

\* --------------------------------------------------------------------- C28
AttendanceReadOps ==
    {"get_employee_attendances", "get_attendances_by_date",
     "get_monthly_report", "get_my_attendances", "list_all_attendances"}

UserById(id) == CHOOSE u \in Users : u.id = id

\* C28: a caller of role employee never receives attendance records of
\* another employee from an attendance read endpoint (per-employee list,
\* per-date list, monthly report, my-attendances): the read returns only the
\* caller's own records or is denied.
C28_OwnAttendanceOnly ==
    (resp.op \in AttendanceReadOps /\ UserById(resp.args[1]).role = "employee")
      => \/ resp.status >= 400
         \/ \A i \in 1..Len(resp.body) :
               Some(resp.body[i].employee_id)
                  = UserById(resp.args[1]).employee_id

\* ------------------------------------------- manual attendance and hire date
\* POST /attendances/ and DELETE /attendances/{attendance_id}, one request
\* at a time, against employees hired on different days.
ManualAttendanceNext ==
    \/ \E u \in WriteCallers, attendance_in \in AttendanceCreateInputs :
          create_attendance(u, attendance_in)
    \/ \E u \in WriteCallers, id \in AttendanceIds : delete_attendance(u, id)

SpecManualAttendance == LeaveInit /\ [][ManualAttendanceNext]_vars

\* C30: a manual attendance creation that is accepted never writes a row
\* dated before the hire date of the employee it is for.
C30_ManualNotBeforeHireDate ==
    [][(resp'.op = "create_attendance" /\ resp'.status = 201)
         => \A a \in attendances' \ attendances :
               employees[a.employee_id].hire_date # Null
                  => a.date >= employees[a.employee_id].hire_date[1]]_vars

\* ------------------------------------------- employees and their accounts
MaxEmployeeId == 3

\* An e-mail address is its local part and its domain.  The second local
\* part is what the suffix rule of create_employee makes of the first for the
\* employee with the last primary key.
EmailLocals == {"an", "an_" \o ToString(MaxEmployeeId)}

EmailDomains == {"x", "y"}

Emails == [local : EmailLocals, domain : EmailDomains]

\* EmployeeCreate and EmployeeUpdate, the email field (the other fields play
\* no part in what follows and are left out).
EmployeeCreateInputs == [email : Emails]

EmployeeEmailInputs == [email : OptOf(Emails)]

\* Permissions of the employee endpoints.
can_create_employee(current_user) == current_user.role \in {"admin", "manager"}

can_delete_employee(current_user) == current_user.role = "admin"

\* A request to an employee endpoint between its checks and its write.
IdleEmployeeRequest == [pc |-> "idle", employee_id |-> 0, email |-> Null]

\* No employee, no account, no request in flight.
EmployeeInit ==
    /\ employees = [e \in {} |-> Null]
    /\ salaries = {}
    /\ next_salary_id = 1
    /\ resp = Response("none", <<>>, 0, "none", <<>>, Null)
    /\ reqs = [r \in 1..NumRequests |-> IdleEmployeeRequest]
    /\ attendances = {}
    /\ next_attendance_id = 1
    /\ leaves = {}
    /\ next_leave_id = 1
    /\ departments = {}
    /\ users = {}
    /\ next_employee_id = 1
    /\ next_user_id = 1

\* What the employee endpoints leave alone unless they say otherwise.
EmployeeFrame ==
    UNCHANGED <<salaries, next_salary_id, attendances, next_attendance_id,
                leaves, next_leave_id, departments>>

\* An HTTPException of an employee endpoint raised before any write.
EmployeeRaise(op, args, status, detail) ==
    /\ resp' = Response(op, args, status, detail, <<>>, Null)
    /\ UNCHANGED <<employees, users, next_employee_id, next_user_id, reqs>>
    /\ EmployeeFrame

\* CRUDEmployee.get_by_email: the employees with exactly this address.
get_by_email(email) == {e \in DOMAIN employees : employees[e].email = email}

\* The employees table with one more row.
crud_employee_create(rows, id, employee_in) ==
    [e \in DOMAIN rows \cup {id} |->
        IF e = id THEN [hire_date |-> Null, email |-> employee_in.email]
        ELSE rows[e]]

\* A variant of the handler that leaves the employee row in place when the
\* account cannot be created.
keep_employee(rows, id) == rows

\* db.delete(employee); db.commit() of lines 233-234.
db_delete_employee(rows, id) == [e \in DOMAIN rows \ {id} |-> rows[e]]

\* crud_employee.remove: the employee row is deleted.
crud_employee_remove(rows, id) == [e \in DOMAIN rows \ {id} |-> rows[e]]

\* Lines 211-216: the local part of the address, with the employee's primary
\* key appended when an account already has that name.
new_username(email, id) ==
    IF \E u \in users : u.username = email.local
    THEN email.local \o "_" \o ToString(id)
    ELSE email.local

\* create_employee from line 198 on: the employee row is committed, then
\* the account; when the account cannot be stored (its username is taken)
\* the employee row is deleted again.  The unique index on Employee.email
\* makes the first commit fail when a row with the address was committed
\* after the handler's check.
create_employee_write(employee_in) ==
    LET id == next_employee_id
        args == <<0, Some(employee_in.email)>>
        username == new_username(employee_in.email, id)
        created == crud_employee_create(employees, id, employee_in)
    IN  IF get_by_email(employee_in.email) # {}
        THEN /\ resp' = Response("create_employee", args, 500, "employee",
                                 <<>>, Null)
             /\ UNCHANGED <<employees, users, next_employee_id, next_user_id>>
             /\ EmployeeFrame
        ELSE IF \E u \in users : u.username = username
        THEN /\ employees' = db_delete_employee(created, id)
             /\ next_employee_id' = id + 1
             /\ resp' = Response("create_employee", args, 500, "user",
                                 <<>>, Null)
             /\ UNCHANGED <<users, next_user_id>>
             /\ EmployeeFrame
        ELSE /\ employees' = created
             /\ next_employee_id' = id + 1
             /\ users' = users \cup
                   {[id |-> next_user_id, username |-> username,
                     role |-> "employee", employee_id |-> Some(id)]}
             /\ next_user_id' = next_user_id + 1
             /\ resp' = Response("create_employee", args, 201, "ok",
                                 <<>>, Null)
             /\ EmployeeFrame

\* create_employee, lines 186-196: the outcome of the checks before the
\* first write.
create_employee_checks(current_user, employee_in) ==
    IF ~can_create_employee(current_user) THEN <<403, "forbidden">>
    ELSE IF get_by_email(employee_in.email) # {} THEN <<400, "email">>
    ELSE <<201, "ok">>

\* POST /employees/
create_employee(current_user, employee_in) ==
    LET outcome == create_employee_checks(current_user, employee_in) IN
    /\ next_employee_id <= MaxEmployeeId
    /\ IF outcome[1] # 201
       THEN EmployeeRaise("create_employee",
                          <<0, Some(employee_in.email)>>,
                          outcome[1], outcome[2])
       ELSE /\ create_employee_write(employee_in)
            /\ UNCHANGED reqs

\* update_employee, lines 310-328: the outcome of the checks before the
\* write.
update_employee_checks(current_user, employee_id, employee_in) ==
    IF ~can_update_employee(current_user) THEN <<403, "forbidden">>
    ELSE IF employee_id \notin DOMAIN employees THEN <<404, "employee">>
    ELSE IF /\ employee_in.email # Null
            /\ employee_in.email[1] # employees[employee_id].email
            /\ get_by_email(employee_in.email[1]) # {}
    THEN <<400, "email">>
    ELSE <<200, "ok">>

\* crud_employee.update of line 331 for the email field.  The commit fails
\* on the unique index when another row holds the address by now; nothing
\* in the handler catches that.
update_employee_write(employee_id, employee_in) ==
    LET args == <<employee_id, employee_in.email>> IN
    IF /\ employee_in.email # Null
       /\ get_by_email(employee_in.email[1]) \ {employee_id} # {}
    THEN /\ resp' = Response("update_employee", args, 500, "internal",
                             <<>>, Null)
         /\ UNCHANGED <<employees, users, next_employee_id, next_user_id>>
         /\ EmployeeFrame
    ELSE /\ employees' =
               [employees EXCEPT ![employee_id].email =
                   IF employee_in.email = Null THEN @
                   ELSE employee_in.email[1]]
         /\ resp' = Response("update_employee", args, 200, "ok", <<>>, Null)
         /\ UNCHANGED <<users, next_employee_id, next_user_id>>
         /\ EmployeeFrame

\* PUT /employees/{employee_id}, the email field.
update_employee_email(current_user, employee_id, employee_in) ==
    LET outcome ==
          update_employee_checks(current_user, employee_id, employee_in)
    IN  IF outcome[1] # 200
        THEN EmployeeRaise("update_employee",
                           <<employee_id, employee_in.email>>,
                           outcome[1], outcome[2])
        ELSE /\ update_employee_write(employee_id, employee_in)
             /\ UNCHANGED reqs

\* DELETE /employees/{employee_id}: the linked account goes first, then the
\* employee row with the rows that belong to it.
delete_employee(current_user, employee_id) ==
    IF ~can_delete_employee(current_user)
    THEN EmployeeRaise("delete_employee", <<employee_id>>, 403, "forbidden")
    ELSE IF employee_id \notin DOMAIN employees
    THEN EmployeeRaise("delete_employee", <<employee_id>>, 404, "employee")
    ELSE
      /\ users' = {u \in users : u.employee_id # Some(employee_id)}
      /\ employees' = crud_employee_remove(employees, employee_id)
      /\ salaries' = {s \in salaries : s.employee_id # employee_id}
      /\ attendances' = {a \in attendances : a.employee_id # employee_id}
      /\ leaves' = {l \in leaves : l.employee_id # employee_id}
      /\ resp' = Response("delete_employee", <<employee_id>>, 204, "ok",
                          <<>>, Null)
      /\ UNCHANGED <<next_salary_id, next_attendance_id, next_leave_id,
                     departments, next_employee_id, next_user_id, reqs>>

\* The employee ids a request may name: those handed out so far and the next.
ReqEmployeeIds == 1..(MaxEmployeeId + 1)

\* The employee endpoints, one request at a time.
EmployeeNext ==
    \/ \E u \in WriteCallers, employee_in \in EmployeeCreateInputs :
          create_employee(u, employee_in)
    \/ \E u \in WriteCallers, id \in ReqEmployeeIds,
          employee_in \in EmployeeEmailInputs :
          update_employee_email(u, id, employee_in)
    \/ \E u \in WriteCallers, id \in ReqEmployeeIds : delete_employee(u, id)

SpecEmployee == EmployeeInit /\ [][EmployeeNext]_vars

\* Every account that names an employee names one on file, and every
\* employee on file has an account of role employee that names it.
AccountsLinked ==
    /\ \A u \in users :
          u.employee_id # Null => u.employee_id[1] \in DOMAIN employees
    /\ \A e \in DOMAIN employees :
          \E u \in users : u.role = "employee" /\ u.employee_id = Some(e)

MaxConcurrentCreates == 2

\* A create_employee request as two steps of its own database session: the
\* checks of lines 186-196, then the writes from line 198 on.  Nothing in the
\* handler locks the employees table between the two.
create_employee_begin(r, current_user, employee_in) ==
    LET outcome == create_employee_checks(current_user, employee_in) IN
    /\ reqs[r].pc = "idle"
    /\ next_employee_id <= MaxConcurrentCreates
    /\ IF outcome[1] # 201
       THEN EmployeeRaise("create_employee",
                          <<0, Some(employee_in.email)>>,
                          outcome[1], outcome[2])
       ELSE /\ reqs' = [reqs EXCEPT ![r] =
                  [pc |-> "create", employee_id |-> 0,
                   email |-> Some(employee_in.email)]]
            /\ UNCHANGED <<employees, users, next_employee_id, next_user_id,
                           resp>>
            /\ EmployeeFrame

create_employee_commit(r) ==
    /\ reqs[r].pc = "create"
    /\ create_employee_write([email |-> reqs[r].email[1]])
    /\ reqs' = [reqs EXCEPT ![r] = IdleEmployeeRequest]

\* An update_employee request likewise: the checks of lines 310-326, then
\* crud_employee.update.
update_employee_begin(r, current_user, employee_id, employee_in) ==
    LET outcome ==
          update_employee_checks(current_user, employee_id, employee_in)
    IN  /\ reqs[r].pc = "idle"
        /\ IF outcome[1] # 200
           THEN EmployeeRaise("update_employee",
                              <<employee_id, employee_in.email>>,
                              outcome[1], outcome[2])
           ELSE /\ reqs' = [reqs EXCEPT ![r] =
                      [pc |-> "update", employee_id |-> employee_id,
                       email |-> employee_in.email]]
                /\ UNCHANGED <<employees, users, next_employee_id,
                               next_user_id, resp>>
                /\ EmployeeFrame

update_employee_commit(r) ==
    /\ reqs[r].pc = "update"
    /\ update_employee_write(reqs[r].employee_id, [email |-> reqs[r].email])
    /\ reqs' = [reqs EXCEPT ![r] = IdleEmployeeRequest]

\* NumRequests requests to create and update employees, interleaved.
EmployeeConcNext ==
    \E r \in 1..NumRequests :
       \/ \E u \in WriteCallers, employee_in \in EmployeeCreateInputs :
             create_employee_begin(r, u, employee_in)
       \/ create_employee_commit(r)
       \/ \E u \in WriteCallers, id \in ReqEmployeeIds,
             employee_in \in EmployeeEmailInputs :
             update_employee_begin(r, u, id, employee_in)
       \/ update_employee_commit(r)

SpecEmployeeConc == EmployeeInit /\ [][EmployeeConcNext]_vars

\* No two employees on file have the same e-mail address.
UniqueEmails ==
    \A a, b \in DOMAIN employees :
       a # b => employees[a].email # employees[b].email

\* This step answers a request (it is not the first half of one).
Answers ==
    \A r \in 1..NumRequests : reqs[r].pc = "idle" => reqs'[r].pc = "idle"

\* The request answered by this step asks for an address that another
\* employee on file holds.
WouldDuplicateEmail ==
    /\ resp'.op \in {"create_employee", "update_employee"}
    /\ resp'.args[2] # Null
    /\ \E e \in DOMAIN employees :
          e # resp'.args[1] /\ employees[e].email = resp'.args[2][1]

\* C27: whatever way create_employee and update_employee requests
\* interleave, no two employees end up with the same e-mail address, and a
\* permitted create or update of an existing employee that would duplicate
\* an address is refused with the conflict error (400, address already
\* registered) and changes neither the employees nor the accounts.
C27_EmailStaysUnique ==
    [][/\ UniqueEmails'
       /\ (Answers /\ WouldDuplicateEmail /\ resp'.status \notin {403, 404})
            => /\ resp'.status = 400
               /\ resp'.detail = "email"
               /\ employees' = employees
               /\ users' = users]_vars

=============================================================================
